---- MODULE Spec2Model ----
(***************************************************************************)
(* ReactiveTwoFieldCollection (src/database/reactive_two_field_collection.h) *)
(* as a state machine: several threads call push_back, erase, top_k,       *)
(* bottom_k, set_compare and set an element's reactive cell; every access  *)
(* to shared memory is one step.  The table widget's double buffer         *)
(* (src/database/async_table_widget.h) and the native NatsClient           *)
(* (src/nats_client_native.cpp) are modelled beside it.                    *)
(***************************************************************************)
EXTENDS Integers, Sequences, FiniteSets, TLC

\* ------------------------------------------------------------------ bounds
NumThreads == 2
MaxId == 2
MaxOps == 3
MaxSeqOps == 4
MaxVal == 2
MaxKey == 1
MaxK == 2
MaxCmpOps == 5
MaxScenOps == 5
MaxBatch == 2
ShortBatch == 1
MaxBatchOps == 3
MaxBatchIds == 3
MaxRefresh == 3
MaxRender == 2
MaxRows == 2
MaxDtorOps == 3
MaxIterOps == 3
\* calls made on a collection that may have the coarse lock
MaxCoarseOps == 3
\* calls made on a collection with the caller's apply functions
MaxApplyOps == 3
\* the connect threads a NatsClient starts, and the calls made on it
MaxConnects == 3
MaxNatsCalls == 5

Threads == 1..NumThreads
\* the ordering scenario: the pairs pushed, in this order, then the element
\* whose second field is set and the value it is set to
ScenarioC == <<<<1, 5>>, <<2, 3>>, <<3, 9>>>>
ScenarioCSet == <<2, 20>>
ScenarioVals == {1, 2, 3, 5, 9, 20}

Ids == 1..(IF MaxId < Len(ScenarioC) THEN Len(ScenarioC) ELSE MaxId)
Vals == 1..MaxVal
\* key 0 is the default-constructed key (push_back without a key)
Keys == 0..MaxKey
NoId == 0

VARIABLES
    cfg,          \* template/constructor parameters, fixed at construction
    callers,      \* how many threads call into the collection
    limits,       \* what the callers do: number of calls, of ids, the values
    cmp,          \* cmp_: the runtime comparator
    indexCmp,     \* the comparator held by ordered_index_'s IdComparator
    readers,      \* ordered_mtx_: threads holding it in shared mode
    notes,        \* notification cycles the totals have sent downstream
    nextId,       \* nextId_
    elems,        \* elems_: id -> ElemRecord
    recLock,      \* write accessor on an elems_ entry: id -> holder thread or 0
    elemCount,    \* elem_count_
    keyIndex,     \* key_index_: key -> id (NoId: no entry)
    monitors,     \* monitors_: ids with an open change monitor
    orderedIndex, \* ordered_index_: the ids in traversal order
    orderedMtx,   \* ordered_mtx_: exclusive holder or 0
    idx1,         \* idx1_: extracted value -> count
    total1,       \* total1_
    total2,       \* total2_
    combinedMtx,  \* combined_mtx_: holder or 0
    pc,           \* program point of each thread
    loc,          \* locals of the call each thread is in
    known,        \* ids that push_back has returned to a caller
    ops,          \* calls started so far
    taken,        \* ids that a push has taken from nextId_
    widget,       \* a double-buffered table widget and its two threads
    nats          \* a NatsClient, its caller and its connect threads

\* the collection and its callers
cvars == <<cfg, callers, limits, cmp, indexCmp, readers, notes, nextId, elems,
           recLock, elemCount, keyIndex, monitors, orderedIndex, orderedMtx,
           idx1, total1, total2, combinedMtx, pc, loc, known, ops, taken>>

vars == <<nats, widget, cfg, callers, limits, cmp, indexCmp, readers, notes, nextId, elems, recLock, elemCount, keyIndex, monitors,
          orderedIndex, orderedMtx, idx1, total1, total2, combinedMtx,
          pc, loc, known, ops, taken>>

shared == <<cmp, indexCmp, readers, notes, nextId, elems, recLock, elemCount, keyIndex, monitors,
            orderedIndex, orderedMtx, idx1, total1, total2, combinedMtx>>

\* ------------------------------------------------------- pure functions

\* detail::DefaultDelta1
DefaultDelta1(new1, new2, last1, last2) == new2 - last2

\* detail::DefaultDelta2
DefaultDelta2(new1, new2, last1, last2) == new2 * new1 - last2 * last1

\* DefaultExtract1
DefaultExtract1(e1, e2) == e2

\* DefaultCompare that looks at elem2 first, then at elem1
DefaultCompareElem2First(a1, a2, b1, b2) ==
    IF a2 < b2 THEN TRUE
    ELSE IF b2 < a2 THEN FALSE
    ELSE a1 < b1

\* DefaultCompare: lexicographic by elem1 then elem2
DefaultCompare(a1, a2, b1, b2) ==
    IF a1 < b1 THEN TRUE
    ELSE IF b1 < a1 THEN FALSE
    ELSE a2 < b2

\* a comparator a caller may pass to set_compare: by elem2 alone
CompareBy2(a1, a2, b1, b2) == a2 < b2

\* the comparators a compare_fn_t may hold
Cmps == {"lex", "by2"}

\* compare_fn_t::operator()
Compare(c, a1, a2, b1, b2) ==
    IF c = "lex" THEN DefaultCompare(a1, a2, b1, b2) ELSE CompareBy2(a1, a2, b1, b2)

\* IdComparator::operator() without the final tie-break by id
IdComparatorNoTieBreak(c, E, a, b) ==
    IF a = b THEN FALSE
    ELSE IF a \notin DOMAIN E \/ b \notin DOMAIN E THEN a < b
    ELSE Compare(c, E[a].last1, E[a].last2, E[b].last1, E[b].last2)

\* IdComparator::operator() with comparator c over the store E
IdComparator(c, E, a, b) ==
    IF a = b THEN FALSE
    ELSE IF a \notin DOMAIN E \/ b \notin DOMAIN E THEN a < b
    ELSE IF Compare(c, E[a].last1, E[a].last2, E[b].last1, E[b].last2) THEN TRUE
    ELSE IF Compare(c, E[b].last1, E[b].last2, E[a].last1, E[a].last2) THEN FALSE
    ELSE a < b

\* std::set is a balanced search tree over the traversal order s.  The root
\* of the subtree holding positions lo..hi-1 is some position whose two sides
\* a red-black tree allows.
Pivots(lo, hi) ==
    {p \in lo..(hi - 1) :
        /\ (p - lo) <= 2 * (hi - 1 - p) + 1
        /\ (hi - 1 - p) <= 2 * (p - lo) + 1}

RECURSIVE LowerBound(_, _, _, _, _, _)
LowerBound(c, E, s, k, lo, hi) ==
    IF lo >= hi THEN {lo}
    ELSE UNION {IF ~IdComparator(c, E, s[p], k)
                THEN LowerBound(c, E, s, k, lo, p)
                ELSE LowerBound(c, E, s, k, p + 1, hi) : p \in Pivots(lo, hi)}

RECURSIVE UpperBound(_, _, _, _, _, _)
UpperBound(c, E, s, k, lo, hi) ==
    IF lo >= hi THEN {lo}
    ELSE UNION {IF IdComparator(c, E, k, s[p])
                THEN UpperBound(c, E, s, k, lo, p)
                ELSE UpperBound(c, E, s, k, p + 1, hi) : p \in Pivots(lo, hi)}

\* std::set::equal_range: the half-open ranges <<first, last>> of positions
RECURSIVE EqualRange(_, _, _, _, _, _)
EqualRange(c, E, s, k, lo, hi) ==
    IF lo >= hi THEN {<<lo, lo>>}
    ELSE UNION {IF IdComparator(c, E, s[p], k) THEN EqualRange(c, E, s, k, p + 1, hi)
                ELSE IF IdComparator(c, E, k, s[p]) THEN EqualRange(c, E, s, k, lo, p)
                ELSE {<<f, l>> : f \in LowerBound(c, E, s, k, lo, p),
                                 l \in UpperBound(c, E, s, k, p + 1, hi)}
                : p \in Pivots(lo, hi)}

\* std::set::find(key): lower_bound, then the test that key is not less
RECURSIVE FindEqual(_, _, _, _, _, _)
FindEqual(c, E, s, k, lo, hi) ==
    IF lo >= hi THEN {<<0, lo>>}
    ELSE UNION {IF IdComparator(c, E, k, s[p]) THEN FindEqual(c, E, s, k, lo, p)
                ELSE IF IdComparator(c, E, s[p], k) THEN FindEqual(c, E, s, k, p + 1, hi)
                ELSE {<<1, p>>} : p \in Pivots(lo, hi)}

\* std::set::erase(key), the possible results.  The order of the tree was
\* right for the snapshots the ids had when they were inserted; the search
\* compares the snapshots of now, so what it finds depends on the tree's
\* shape.  One library erases equal_range(key), another the one node that
\* find(key) returns.
SetErase(c, E, s, k) ==
    {SubSeq(s, 1, r[1] - 1) \o SubSeq(s, r[2], Len(s)) :
        r \in EqualRange(c, E, s, k, 1, Len(s) + 1)}
    \cup
    {IF f <= Len(s) /\ ~IdComparator(c, E, k, s[f])
     THEN SubSeq(s, 1, f - 1) \o SubSeq(s, f + 1, Len(s))
     ELSE s : f \in LowerBound(c, E, s, k, 1, Len(s) + 1)}

\* std::set::insert(key), the possible results: descend to a leaf slot and
\* insert there, unless an equivalent key is met (one library tests the
\* slot's predecessor after the descent, another every node on the way)
SetInsert(c, E, s, k) ==
    {IF q = 1 \/ IdComparator(c, E, s[q - 1], k)
     THEN SubSeq(s, 1, q - 1) \o <<k>> \o SubSeq(s, q, Len(s))
     ELSE s : q \in UpperBound(c, E, s, k, 1, Len(s) + 1)}
    \cup
    {IF r[1] = 1 THEN s
     ELSE SubSeq(s, 1, r[2] - 1) \o <<k>> \o SubSeq(s, r[2], Len(s)) :
        r \in FindEqual(c, E, s, k, 1, Len(s) + 1)}

\* top_index1 over the count map
TopIndex1(m, mode) ==
    LET present == {v \in DOMAIN m : m[v] > 0} IN
    IF present = {} THEN 0
    ELSE IF mode = "Min" THEN CHOOSE v \in present : \A w \in present : v <= w
    ELSE CHOOSE v \in present : \A w \in present : v >= w

\* erase_one_index1
EraseOneIndex1(m, v) ==
    IF v \in DOMAIN m /\ m[v] > 0 THEN [m EXCEPT ![v] = @ - 1] ELSE m

\* insert_index1
InsertIndex1(m, v) == [m EXCEPT ![v] = @ + 1]

\* ------------------------------------------------------------ the state

NoLoc == [op |-> "none", id |-> 0, e1 |-> 0, e2 |-> 0, key |-> 0,
          d1 |-> 0, d2 |-> 0, xold |-> 0, xnew |-> 0,
          cur1 |-> 0, cur2 |-> 0, ch1 |-> FALSE, ch2 |-> FALSE,
          reins |-> FALSE, found |-> FALSE, ret |-> "none",
          k |-> 0, out |-> <<>>,
          list |-> <<>>, batch |-> FALSE, dirty |-> FALSE, n0 |-> 0,
          arg |-> <<>>, s0 |-> <<>>, thrown |-> FALSE, res |-> 0,
          read1 |-> 0, read2 |-> 0]

\* Total1Mode, combined_atomic, MaintainOrderedIndex, KeyT != monostate,
\* coarse_lock_enabled_ (the constructor's coarse_lock argument, false unless
\* the caller asks for it, true when RequireCoarseLock is), RequireCoarseLock,
\* and whether Apply1Fn and Apply2Fn are the caller's own functions rather
\* than detail::DefaultApplyAdd
Configs ==
    {[mode |-> "Add", combined |-> FALSE, ordered |-> FALSE, keyed |-> FALSE,
      coarse |-> FALSE, require |-> FALSE, custom |-> FALSE],
     [mode |-> "Min", combined |-> FALSE, ordered |-> TRUE, keyed |-> FALSE,
      coarse |-> FALSE, require |-> FALSE, custom |-> FALSE],
     [mode |-> "Max", combined |-> TRUE, ordered |-> FALSE, keyed |-> TRUE,
      coarse |-> FALSE, require |-> FALSE, custom |-> FALSE],
     [mode |-> "Add", combined |-> TRUE, ordered |-> TRUE, keyed |-> TRUE,
      coarse |-> FALSE, require |-> FALSE, custom |-> FALSE]}

\* no widget is attached
NoWidget ==
    [callback |-> FALSE, front |-> 0, buf |-> [b \in 0..1 |-> <<>>],
     rpc |-> "idle", back |-> 0, ver |-> 0, want |-> 0, desc |-> FALSE,
     gpc |-> "idle", f |-> 0, n |-> 0, i |-> 0, seen |-> <<>>,
     refreshes |-> MaxRefresh, renders |-> MaxRender]

\* the connect threads a NatsClient may have started
Connects == 1..MaxConnects

\* no NatsClient is used: m_connected{false}, m_status = "Disconnected",
\* m_nativeData = nullptr
NoNats ==
    [connected |-> FALSE, status |-> "Disconnected", nativeData |-> 0,
     thread |-> [i \in Connects |-> "none"], destroyed |-> {},
     calls |-> MaxNatsCalls]

InitState ==
    /\ cmp = "lex"
    /\ indexCmp = "lex"
    /\ readers = {}
    /\ notes = 0
    /\ nextId = 1
    /\ elems = <<>>
    /\ recLock = [i \in Ids |-> 0]
    /\ elemCount = 0
    /\ keyIndex = [k \in Keys |-> NoId]
    /\ monitors = {}
    /\ orderedIndex = <<>>
    /\ orderedMtx = 0
    /\ idx1 = [v \in Vals \cup ScenarioVals |-> 0]
    /\ total1 = 0
    /\ total2 = 0
    /\ combinedMtx = 0
    /\ pc = [t \in Threads |-> "idle"]
    /\ loc = [t \in Threads |-> NoLoc]
    /\ known = {}
    /\ ops = 0
    /\ taken = {}

\* the public member functions
CoreCalls == {"push", "erase", "set", "read", "set_compare", "rebuild"}
Calls == CoreCalls \cup {"batch", "var", "find_by_key", "erase_by_key"}

\* thread 1 makes any call, the other threads make the calls of C
FirstAny(C) == [t \in Threads |-> IF t = 1 THEN Calls ELSE C]

\* the lists of at most n pairs of P
ListsOf(P, n) == UNION {[1..m -> P] : m \in 0..n}

\* the calls of the callers: any function, any pair and any value of Vals,
\* batches of at most ShortBatch pairs
AnyCalls(n) ==
    [ops |-> n, ids |-> MaxId, pairs |-> Vals \X Vals, seq |-> <<>>,
     vals |-> Vals,
     batch |-> ShortBatch, track |-> FALSE,
     calls |-> [t \in Threads |-> Calls]]

\* thread 1 makes any call, the others the calls on the store, the index and
\* the comparator; three pairs, with equal and with different fields
Init ==
    /\ cfg \in Configs
    /\ callers = NumThreads
    /\ limits = [AnyCalls(MaxOps) EXCEPT
                    !.pairs = {<<1, 1>>, <<1, MaxVal>>, <<MaxVal, 1>>},
                    !.calls = FirstAny(CoreCalls)]
    /\ InitState
    /\ widget = NoWidget
    /\ nats = NoNats

\* one caller thread: every call returns before the next starts
InitSeq ==
    /\ cfg \in Configs
    /\ callers = 1
    /\ limits = [AnyCalls(MaxSeqOps) EXCEPT !.batch = MaxBatch]
    /\ InitState
    /\ widget = NoWidget
    /\ nats = NoNats

\* --------------------------------------------------------------- helpers

Range(s) == {s[i] : i \in 1..Len(s)}

\* no call is in progress
Quiescent == \A t \in Threads : pc[t] = "idle"

\* where apply_pair starts
ApplyEntry == IF cfg.combined THEN "c_lock" ELSE "a_t1"

\* the records on which IdComparator takes a const_accessor while the tree s
\* is searched for id k: both records of every comparison of k with another
\* id (a == b returns before any accessor; a record that is gone is not
\* locked)
ComparatorLocks(s, k) ==
    IF Range(s) \ {k} = {} THEN {} ELSE (Range(s) \cup {k}) \cap DOMAIN elems

\* the accessors of the comparator wait for the records' locks
CanCompare(id) == \A i \in ComparatorLocks(orderedIndex, id) : recLock[i] = 0

\* thread t is one that calls function f
MayCall(t, f) == f \in limits.calls[t]

\* the pairs that the batch pushes in progress have still to push
PendingPushes ==
    Cardinality(UNION {{<<u, i>> : i \in 1..Len(loc[u].list)} : u \in Threads})

\* a write of a total sends one notification cycle downstream, unless it is
\* made inside reaction::batchExecute: then the cycle waits for the batch's end
NotesAfterWrite(l) == IF l.batch \/ ~limits.track THEN notes ELSE notes + 1
LocalsAfterWrite(l) == IF l.batch THEN [l EXCEPT !.dirty = TRUE] ELSE l

\* what a push_back changes: the totals, the count map, the size, the store
\* and the id counter
Summary ==
    [total1 |-> total1, total2 |-> total2, idx1 |-> idx1, count |-> elemCount,
     elems |-> elems, nextId |-> nextId]

\* what is recorded of a call (its arguments, the state it started in) and of
\* the notifications, where the callers' limits ask for it
Kept(x) == IF limits.track THEN x ELSE <<>>

\* the pairs a caller may push as element i: any pair of the callers' pairs,
\* or the i-th pair of the callers' sequence when they follow one
PairsFor(i) ==
    IF limits.seq = <<>> THEN limits.pairs
    ELSE IF i <= Len(limits.seq) THEN {limits.seq[i]} ELSE {}

\* a caller thread may start a call (the number of calls is bounded)
\* the steps of ~ReactiveTwoFieldCollection after monitors_.clear(), and its end
DtorPoints == {"d_idx", "d_key", "d_members", "gone"}

\* the destructor has been entered
Destroying == \E u \in Threads : pc[u] \in DtorPoints

\* a set goes through a handle of the cell (elemNVar returns the
\* reaction::Var, a shared handle), which a caller may hold and use for as
\* long as the record is there
CanSet(t) ==
    /\ pc[t] = "idle"
    /\ t <= callers
    /\ ops < limits.ops

\* a member function is called on a collection that is not being destroyed
CanStart(t) == CanSet(t) /\ ~Destroying

\* the member functions whose first statement is auto lk = maybe_lock(): they
\* hold the lock until they return
CoarseCalls == {"push", "batch", "erase", "erase_by_key", "var"}

\* thread u is inside a member function that holds coarse_mtx_
HoldsCoarse(u) == cfg.coarse /\ pc[u] # "idle" /\ loc[u].op \in CoarseCalls

\* maybe_lock(): a unique_lock on coarse_mtx_ when the coarse lock is
\* enabled, a deferred one (that locks nothing) when it is not
MaybeLock(t) == \A u \in Threads \ {t} : ~HoldsCoarse(u)

\* a member function that starts with maybe_lock() is entered
CanLock(t) == CanStart(t) /\ MaybeLock(t)

\* ------------------------------------------------------------- push_one

\* PushAlloc with the id taken from the live count instead of nextId_
PushAllocByCount(t, e1, e2, k) ==
    /\ CanLock(t)
    /\ elemCount + 1 \in 1..limits.ids
    /\ nextId' = nextId + 1
    /\ taken' = taken \cup {elemCount + 1}
    /\ ops' = ops + 1
    /\ loc' = [loc EXCEPT ![t] =
                 [NoLoc EXCEPT !.op = "push", !.id = elemCount + 1,
                               !.e1 = e1, !.e2 = e2, !.key = k,
                               !.d1 = DefaultDelta1(e1, e2, 0, 0),
                               !.d2 = DefaultDelta2(e1, e2, 0, 0),
                               !.xnew = IF cfg.mode = "Add" THEN 0
                                        ELSE DefaultExtract1(e1, e2),
                               !.ret = "p_mon"]]
    /\ pc' = [pc EXCEPT ![t] = "p_ins"]
    /\ UNCHANGED <<nats, widget, cfg, callers, limits, cmp, indexCmp, readers, notes, elems, recLock,
                   elemCount, keyIndex, monitors, orderedIndex, orderedMtx, idx1,
                   total1, total2, combinedMtx, known>>

\* nextId_.fetch_add(1); the record and the deltas are locals
PushAlloc(t, e1, e2, k) ==
    /\ CanLock(t)
    /\ nextId + PendingPushes <= limits.ids
    /\ nextId' = nextId + 1
    /\ taken' = taken \cup {nextId}
    /\ ops' = ops + 1
    /\ loc' = [loc EXCEPT ![t] =
                 [NoLoc EXCEPT !.op = "push", !.id = nextId, !.e1 = e1, !.e2 = e2,
                               !.key = k,
                               !.d1 = DefaultDelta1(e1, e2, 0, 0),
                               !.d2 = DefaultDelta2(e1, e2, 0, 0),
                               !.xnew = IF cfg.mode = "Add" THEN 0
                                        ELSE DefaultExtract1(e1, e2),
                               !.ret = "p_mon", !.n0 = notes,
                               !.arg = Kept(<<<<e1, e2, k>>>>), !.s0 = Kept(Summary)]]
    /\ pc' = [pc EXCEPT ![t] = "p_ins"]
    /\ UNCHANGED <<nats, widget, cfg, callers, limits, cmp, indexCmp, readers, notes, elems, recLock, elemCount, keyIndex, monitors,
                   orderedIndex, orderedMtx, idx1, total1, total2, combinedMtx, known>>

\* elems_.insert(make_pair(id, rec))
PushStore(t) ==
    /\ pc[t] = "p_ins"
    /\ elems' = [i \in DOMAIN elems \cup {loc[t].id} |->
                    IF i = loc[t].id
                    THEN [cell1 |-> loc[t].e1, cell2 |-> loc[t].e2,
                          last1 |-> loc[t].e1, last2 |-> loc[t].e2,
                          key |-> loc[t].key]
                    ELSE elems[i]]
    /\ pc' = [pc EXCEPT ![t] = "p_cnt"]
    /\ UNCHANGED <<taken, nats, widget, cfg, callers, limits, cmp, indexCmp, readers, notes, nextId, recLock, elemCount, keyIndex, monitors,
                   orderedIndex, orderedMtx, idx1, total1, total2, combinedMtx,
                   loc, known, ops>>

\* elem_count_.fetch_add(1)
PushCount(t) ==
    /\ pc[t] = "p_cnt"
    /\ elemCount' = elemCount + 1
    /\ pc' = [pc EXCEPT ![t] = IF cfg.keyed THEN "p_key"
                               ELSE IF cfg.ordered THEN "p_lock"
                               ELSE ApplyEntry]
    /\ UNCHANGED <<taken, nats, widget, cfg, callers, limits, cmp, indexCmp, readers, notes, nextId, elems, recLock, keyIndex, monitors,
                   orderedIndex, orderedMtx, idx1, total1, total2, combinedMtx,
                   loc, known, ops>>

\* key_index_.insert(make_pair(acc->second.key, id)): no effect when the key
\* already has an entry
PushKey(t) ==
    /\ pc[t] = "p_key"
    /\ recLock[loc[t].id] = 0
    /\ keyIndex' = IF loc[t].id \in DOMAIN elems
                      /\ keyIndex[elems[loc[t].id].key] = NoId
                   THEN [keyIndex EXCEPT ![elems[loc[t].id].key] = loc[t].id]
                   ELSE keyIndex
    /\ pc' = [pc EXCEPT ![t] = IF cfg.ordered THEN "p_lock" ELSE ApplyEntry]
    /\ UNCHANGED <<taken, nats, widget, cfg, callers, limits, cmp, indexCmp, readers, notes, nextId, elems, recLock, elemCount, monitors,
                   orderedIndex, orderedMtx, idx1, total1, total2, combinedMtx,
                   loc, known, ops>>

\* AcquireOrdered that does not wait for the shared holders
AcquireOrderedOverReaders(t) ==
    /\ pc[t] \in {"p_lock", "e_lock", "m_lock", "sc_lock"}
    /\ orderedMtx = 0
    /\ orderedMtx' = t
    /\ pc' = [pc EXCEPT ![t] = CASE pc[t] = "p_lock" -> "p_idx"
                                 [] pc[t] = "e_lock" -> "e_idx"
                                 [] pc[t] = "m_lock" -> "m_idx"
                                 [] OTHER -> "sc_build"]
    /\ UNCHANGED <<taken, nats, widget, cfg, callers, limits, cmp, indexCmp, readers, notes, nextId,
                   elems, recLock, elemCount, keyIndex,
                   monitors, orderedIndex, idx1, total1, total2, combinedMtx,
                   loc, known, ops>>

\* std::unique_lock<std::shared_mutex> lock(ordered_mtx_), in push_one, erase,
\* the change monitor, set_compare and rebuild_ordered_index
AcquireOrdered(t) ==
    /\ pc[t] \in {"p_lock", "e_lock", "m_lock", "sc_lock"}
    /\ orderedMtx = 0
    /\ readers = {}
    /\ orderedMtx' = t
    /\ pc' = [pc EXCEPT ![t] = CASE pc[t] = "p_lock" -> "p_idx"
                                 [] pc[t] = "e_lock" -> "e_idx"
                                 [] pc[t] = "m_lock" -> "m_idx"
                                 [] OTHER -> "sc_build"]
    /\ UNCHANGED <<taken, nats, widget, cfg, callers, limits, cmp, indexCmp, readers, notes, nextId, elems, recLock, elemCount, keyIndex,
                   monitors, orderedIndex, idx1, total1, total2, combinedMtx,
                   loc, known, ops>>

\* ordered_index_->insert(id), then the lock's scope ends
PushIndexInsert(t) ==
    /\ pc[t] = "p_idx"
    /\ CanCompare(loc[t].id)
    /\ orderedIndex' \in SetInsert(indexCmp, elems, orderedIndex, loc[t].id)
    /\ orderedMtx' = 0
    /\ pc' = [pc EXCEPT ![t] = ApplyEntry]
    /\ UNCHANGED <<taken, nats, widget, cfg, callers, limits, cmp, indexCmp, readers, notes, nextId, elems, recLock, elemCount, keyIndex,
                   monitors, idx1, total1, total2, combinedMtx, loc, known, ops>>

\* elems_.find(acc_for_monitor, id), release, monitors_.insert(action(...))
PushMonitor(t) ==
    /\ pc[t] = "p_mon"
    /\ recLock[loc[t].id] = 0
    /\ IF loc[t].id \in DOMAIN elems
       THEN monitors' = monitors \cup {loc[t].id} /\ loc' = [loc EXCEPT ![t].found = TRUE]
       ELSE UNCHANGED <<monitors, loc>>
    /\ pc' = [pc EXCEPT ![t] = IF loc[t].op = "batch" THEN "b_next" ELSE "ret"]
    /\ UNCHANGED <<taken, nats, widget, cfg, callers, limits, cmp, indexCmp, readers, notes, nextId, elems, recLock, elemCount, keyIndex,
                   orderedIndex, orderedMtx, idx1, total1, total2, combinedMtx,
                   known, ops>>

\* the call returns; push_back hands its id to the caller
Return(t) ==
    /\ pc[t] = "ret"
    /\ known' = IF loc[t].op = "push" /\ loc[t].found
                THEN known \cup {loc[t].id} ELSE known
    /\ loc' = [loc EXCEPT ![t] = NoLoc]
    /\ pc' = [pc EXCEPT ![t] = "idle"]
    /\ UNCHANGED <<taken, nats, widget, cfg, callers, limits, cmp, indexCmp, readers, notes, shared, ops>>

\* ---------------------------------------------------------------- erase

\* EraseFind with the live count decremented before the id is looked up
EraseFindCountFirst(t, id) ==
    /\ CanLock(t)
    /\ ops' = ops + 1
    /\ elemCount' = elemCount - 1
    /\ IF id \in DOMAIN elems
       THEN /\ recLock[id] = 0
            /\ recLock' = [recLock EXCEPT ![id] = t]
            /\ loc' = [loc EXCEPT ![t] = [NoLoc EXCEPT !.op = "erase", !.id = id,
                                                       !.found = TRUE]]
            /\ pc' = [pc EXCEPT ![t] = "e_read"]
       ELSE /\ loc' = [loc EXCEPT ![t] = [NoLoc EXCEPT !.op = "erase", !.id = id]]
            /\ pc' = [pc EXCEPT ![t] = "ret"]
            /\ UNCHANGED recLock
    /\ UNCHANGED <<taken, nats, widget, cfg, callers, limits, cmp, indexCmp, readers, notes, nextId, elems, keyIndex, monitors,
                   orderedIndex, orderedMtx, idx1, total1, total2, combinedMtx, known>>

\* elems_.find(acc, id): returns at once when the id is absent, else holds
\* the write accessor
EraseFind(t, id) ==
    /\ CanLock(t)
    /\ ops' = ops + 1
    /\ IF id \in DOMAIN elems
       THEN /\ recLock[id] = 0
            /\ recLock' = [recLock EXCEPT ![id] = t]
            /\ loc' = [loc EXCEPT ![t] = [NoLoc EXCEPT !.op = "erase", !.id = id,
                                                       !.found = TRUE]]
            /\ pc' = [pc EXCEPT ![t] = "e_read"]
       ELSE /\ loc' = [loc EXCEPT ![t] = [NoLoc EXCEPT !.op = "erase", !.id = id]]
            /\ pc' = [pc EXCEPT ![t] = "ret"]
            /\ UNCHANGED recLock
    /\ UNCHANGED <<taken, nats, widget, cfg, callers, limits, cmp, indexCmp, readers, notes, nextId, elems, elemCount, keyIndex, monitors,
                   orderedIndex, orderedMtx, idx1, total1, total2, combinedMtx, known>>

\* EraseRead without acc.release()
EraseReadKeepAccessor(t) ==
    /\ pc[t] = "e_read"
    /\ LET r == elems[loc[t].id] IN
       loc' = [loc EXCEPT ![t].xold = IF cfg.mode = "Add" THEN 0
                                      ELSE DefaultExtract1(r.last1, r.last2),
                          ![t].d1 = DefaultDelta1(0, 0, r.last1, r.last2),
                          ![t].d2 = DefaultDelta2(0, 0, r.last1, r.last2),
                          ![t].key = r.key,
                          ![t].ret = IF cfg.keyed THEN "e_key" ELSE "e_mon"]
    /\ pc' = [pc EXCEPT ![t] = IF cfg.ordered THEN "e_lock" ELSE ApplyEntry]
    /\ UNCHANGED <<taken, nats, widget, cfg, callers, limits, cmp, indexCmp, readers, notes, nextId, elems,
                   recLock, elemCount, keyIndex, monitors,
                   orderedIndex, orderedMtx, idx1, total1, total2, combinedMtx,
                   known, ops>>

\* old_ext1, rem1, rem2 and key_to_erase from the record, then acc.release()
EraseRead(t) ==
    /\ pc[t] = "e_read"
    /\ LET r == elems[loc[t].id] IN
       loc' = [loc EXCEPT ![t].xold = IF cfg.mode = "Add" THEN 0
                                      ELSE DefaultExtract1(r.last1, r.last2),
                          ![t].d1 = DefaultDelta1(0, 0, r.last1, r.last2),
                          ![t].d2 = DefaultDelta2(0, 0, r.last1, r.last2),
                          ![t].key = r.key,
                          ![t].ret = IF cfg.keyed THEN "e_key" ELSE "e_mon"]
    /\ recLock' = [recLock EXCEPT ![loc[t].id] = 0]
    /\ pc' = [pc EXCEPT ![t] = IF cfg.ordered THEN "e_lock" ELSE ApplyEntry]
    /\ UNCHANGED <<taken, nats, widget, cfg, callers, limits, cmp, indexCmp, readers, notes, nextId, elems, elemCount, keyIndex, monitors,
                   orderedIndex, orderedMtx, idx1, total1, total2, combinedMtx,
                   known, ops>>

\* ordered_index_->erase(id), then the lock's scope ends
EraseIndex(t) ==
    /\ pc[t] = "e_idx"
    /\ CanCompare(loc[t].id)
    /\ orderedIndex' \in SetErase(indexCmp, elems, orderedIndex, loc[t].id)
    /\ orderedMtx' = 0
    /\ pc' = [pc EXCEPT ![t] = ApplyEntry]
    /\ UNCHANGED <<taken, nats, widget, cfg, callers, limits, cmp, indexCmp, readers, notes, nextId, elems, recLock, elemCount, keyIndex,
                   monitors, idx1, total1, total2, combinedMtx, loc, known, ops>>

\* EraseKey that removes the entry only when it maps to the erased id
EraseKeyIfOwn(t) ==
    /\ pc[t] = "e_key"
    /\ keyIndex' = IF keyIndex[loc[t].key] = loc[t].id
                   THEN [keyIndex EXCEPT ![loc[t].key] = NoId]
                   ELSE keyIndex
    /\ pc' = [pc EXCEPT ![t] = "e_mon"]
    /\ UNCHANGED <<taken, nats, widget, cfg, callers, limits, cmp, indexCmp, readers, notes, nextId, elems, recLock, elemCount, monitors,
                   orderedIndex, orderedMtx, idx1, total1, total2, combinedMtx,
                   loc, known, ops>>

\* key_index_.erase(key_to_erase)
EraseKey(t) ==
    /\ pc[t] = "e_key"
    /\ keyIndex' = [keyIndex EXCEPT ![loc[t].key] = NoId]
    /\ pc' = [pc EXCEPT ![t] = "e_mon"]
    /\ UNCHANGED <<taken, nats, widget, cfg, callers, limits, cmp, indexCmp, readers, notes, nextId, elems, recLock, elemCount, monitors,
                   orderedIndex, orderedMtx, idx1, total1, total2, combinedMtx,
                   loc, known, ops>>

\* monitors_.find(mon_acc, id), close(), monitors_.erase(mon_acc)
EraseMonitor(t) ==
    /\ pc[t] = "e_mon"
    /\ monitors' = monitors \ {loc[t].id}
    /\ pc' = [pc EXCEPT ![t] = "e_store"]
    /\ UNCHANGED <<taken, nats, widget, cfg, callers, limits, cmp, indexCmp, readers, notes, nextId, elems, recLock, elemCount, keyIndex,
                   orderedIndex, orderedMtx, idx1, total1, total2, combinedMtx,
                   loc, known, ops>>

\* elems_.erase(id)
EraseStore(t) ==
    /\ pc[t] = "e_store"
    /\ recLock[loc[t].id] = 0
    /\ elems' = [i \in DOMAIN elems \ {loc[t].id} |-> elems[i]]
    /\ pc' = [pc EXCEPT ![t] = "e_cnt"]
    /\ UNCHANGED <<taken, nats, widget, cfg, callers, limits, cmp, indexCmp, readers, notes, nextId, recLock, elemCount, keyIndex, monitors,
                   orderedIndex, orderedMtx, idx1, total1, total2, combinedMtx,
                   loc, known, ops>>

\* elem_count_.fetch_sub(1)
EraseCount(t) ==
    /\ pc[t] = "e_cnt"
    /\ elemCount' = elemCount - 1
    /\ pc' = [pc EXCEPT ![t] = "ret"]
    /\ UNCHANGED <<taken, nats, widget, cfg, callers, limits, cmp, indexCmp, readers, notes, nextId, elems, recLock, keyIndex, monitors,
                   orderedIndex, orderedMtx, idx1, total1, total2, combinedMtx,
                   loc, known, ops>>

\* ------------------------------------------- element set, change monitor

\* elemNVar(id).value(v): the cell takes v and the element's monitor, when
\* open, is called on this thread with both cells' values as they are now
\* (the lambda takes them by value)
SetCell(t, id, f, v) ==
    /\ CanSet(t)
    /\ id \in known /\ id \in DOMAIN elems
    /\ recLock[id] = 0
    /\ v # (IF f = 1 THEN elems[id].cell1 ELSE elems[id].cell2)
    /\ ops' = ops + 1
    /\ elems' = IF f = 1 THEN [elems EXCEPT ![id].cell1 = v]
                ELSE [elems EXCEPT ![id].cell2 = v]
    /\ loc' = [loc EXCEPT ![t] = [NoLoc EXCEPT !.op = "set", !.id = id,
                                               !.e1 = elems'[id].cell1,
                                               !.e2 = elems'[id].cell2,
                                               !.found = id \in monitors]]
    /\ pc' = [pc EXCEPT ![t] = IF id \in monitors THEN "m_find" ELSE "ret"]
    /\ UNCHANGED <<taken, nats, widget, cfg, callers, limits, cmp, indexCmp, readers, notes, nextId, recLock, elemCount, keyIndex, monitors,
                   orderedIndex, orderedMtx, idx1, total1, total2, combinedMtx, known>>

\* the monitor is called: a monitor closed in the meantime does not fire;
\* its elems_.find(acc, id) returns when the id is gone
MonitorFind(t) ==
    /\ pc[t] = "m_find"
    /\ IF loc[t].id \in monitors /\ loc[t].id \in DOMAIN elems
       THEN /\ recLock[loc[t].id] = 0
            /\ recLock' = [recLock EXCEPT ![loc[t].id] = t]
            /\ pc' = [pc EXCEPT ![t] = "m_upd"]
       ELSE /\ pc' = [pc EXCEPT ![t] = "ret"]
            /\ UNCHANGED recLock
    /\ UNCHANGED <<taken, nats, widget, cfg, callers, limits, cmp, indexCmp, readers, notes, nextId, elems, elemCount, keyIndex, monitors,
                   orderedIndex, orderedMtx, idx1, total1, total2, combinedMtx,
                   loc, known, ops>>

\* what the monitor computes under the accessor; the equivalence test reads
\* cmp_, the index compares with the comparator it was built with
MonitorLocals(l, r) ==
    [l EXCEPT !.reins = IF cfg.ordered
                        THEN ~(~Compare(cmp, r.last1, r.last2, l.e1, l.e2)
                               /\ ~Compare(cmp, l.e1, l.e2, r.last1, r.last2))
                        ELSE TRUE,
              !.d1 = DefaultDelta1(l.e1, l.e2, r.last1, r.last2),
              !.d2 = DefaultDelta2(l.e1, l.e2, r.last1, r.last2),
              !.xold = IF cfg.mode = "Add" THEN 0 ELSE DefaultExtract1(r.last1, r.last2),
              !.xnew = IF cfg.mode = "Add" THEN 0 ELSE DefaultExtract1(l.e1, l.e2),
              !.ret = "ret"]

\* MonitorUpdate without acc.release()
MonitorUpdateKeepAccessor(t) ==
    /\ pc[t] = "m_upd"
    /\ loc' = [loc EXCEPT ![t] = MonitorLocals(loc[t], elems[loc[t].id])]
    /\ elems' = [elems EXCEPT ![loc[t].id].last1 = loc[t].e1,
                              ![loc[t].id].last2 = loc[t].e2]
    /\ pc' = [pc EXCEPT ![t] = IF cfg.ordered /\ loc'[t].reins THEN "m_lock"
                               ELSE ApplyEntry]
    /\ UNCHANGED <<taken, nats, widget, cfg, callers, limits, cmp, indexCmp, readers, notes, nextId, recLock, elemCount, keyIndex, monitors,
                   orderedIndex, orderedMtx, idx1, total1, total2, combinedMtx,
                   known, ops>>

\* need_reinsert, deltas, extracted values, the new snapshot, acc.release()
MonitorUpdate(t) ==
    /\ pc[t] = "m_upd"
    /\ loc' = [loc EXCEPT ![t] = MonitorLocals(loc[t], elems[loc[t].id])]
    /\ elems' = [elems EXCEPT ![loc[t].id].last1 = loc[t].e1,
                              ![loc[t].id].last2 = loc[t].e2]
    /\ recLock' = [recLock EXCEPT ![loc[t].id] = 0]
    /\ pc' = [pc EXCEPT ![t] = IF cfg.ordered /\ loc'[t].reins THEN "m_lock"
                               ELSE ApplyEntry]
    /\ UNCHANGED <<taken, nats, widget, cfg, callers, limits, cmp, indexCmp, readers, notes, nextId, elemCount, keyIndex, monitors,
                   orderedIndex, orderedMtx, idx1, total1, total2, combinedMtx,
                   known, ops>>

\* ordered_index_->erase(id); ordered_index_->insert(id), under the lock
MonitorReinsert(t) ==
    /\ pc[t] = "m_idx"
    /\ CanCompare(loc[t].id)
    /\ orderedIndex' \in UNION {SetInsert(indexCmp, elems, s, loc[t].id) :
                                  s \in SetErase(indexCmp, elems, orderedIndex, loc[t].id)}
    /\ orderedMtx' = 0
    /\ pc' = [pc EXCEPT ![t] = ApplyEntry]
    /\ UNCHANGED <<taken, nats, widget, cfg, callers, limits, cmp, indexCmp, readers, notes, nextId, elems, recLock, elemCount, keyIndex,
                   monitors, idx1, total1, total2, combinedMtx, loc, known, ops>>

\* ----------------------------------------------------------- apply_pair

\* the count map after this mutation's old value left and new value came
Index1After(l) ==
    LET a == IF l.xold # 0 THEN EraseOneIndex1(idx1, l.xold) ELSE idx1
    IN  IF l.xnew # 0 THEN InsertIndex1(a, l.xnew) ELSE a

\* a caller's apply function: bool apply(total &cur, const delta &d), here
\* one that adds the delta and reports a change
CustomApply(cur, d) == cur + d

\* thread u holds total1_mtx_ / total2_mtx_: apply_totalN takes it around the
\* read, the caller's function and the write, unless RequireCoarseLock
HoldsTotal1(u) == ~cfg.require /\ pc[u] = "a_c1w"
HoldsTotal2(u) == ~cfg.require /\ pc[u] = "a_c2w"

\* not combined, total 1: apply_total1(d1), which is total1_ += d1 (the
\* cell's own read-modify-write, taken as one step) or, with the caller's
\* apply function, cur = total1_.get() and apply1_(cur, d1); in Min and Max
\* mode the count map is updated and its top read
ApplyTotal1(t) ==
    /\ pc[t] = "a_t1"
    /\ IF cfg.mode = "Add" /\ cfg.custom
       THEN /\ \A u \in Threads \ {t} : ~HoldsTotal1(u)
            /\ loc' = [loc EXCEPT ![t].read1 = total1,
                                  ![t].cur1 = CustomApply(total1, loc[t].d1)]
            /\ pc' = [pc EXCEPT ![t] = "a_c1w"]
            /\ UNCHANGED <<total1, notes, idx1>>
       ELSE IF cfg.mode = "Add"
       THEN /\ total1' = total1 + loc[t].d1
            /\ notes' = NotesAfterWrite(loc[t])
            /\ loc' = [loc EXCEPT ![t] = LocalsAfterWrite(@)]
            /\ pc' = [pc EXCEPT ![t] = "a_t2"]
            /\ UNCHANGED idx1
       ELSE /\ idx1' = Index1After(loc[t])
            /\ loc' = [loc EXCEPT ![t].cur1 = TopIndex1(idx1', cfg.mode)]
            /\ pc' = [pc EXCEPT ![t] = "a_w1"]
            /\ UNCHANGED <<total1, notes>>
    /\ UNCHANGED <<taken, nats, widget, cfg, callers, limits, cmp, indexCmp, readers, nextId, elems,
                   recLock, elemCount, keyIndex, monitors, orderedIndex,
                   orderedMtx, total2, combinedMtx, known, ops>>

\* not combined, Min and Max mode: total1_.value(*top1)
ApplyWrite1(t) ==
    /\ pc[t] = "a_w1"
    /\ total1' = loc[t].cur1
    /\ notes' = NotesAfterWrite(loc[t])
    /\ loc' = [loc EXCEPT ![t] = LocalsAfterWrite(@)]
    /\ pc' = [pc EXCEPT ![t] = "a_t2"]
    /\ UNCHANGED <<taken, nats, widget, cfg, callers, limits, cmp, indexCmp, readers, nextId, elems,
                   recLock, elemCount, keyIndex, monitors, orderedIndex,
                   orderedMtx, idx1, total2, combinedMtx, known, ops>>

\* apply_total1 with the caller's function: if (changed) total1_.value(cur)
ApplyCustomWrite1(t) ==
    /\ pc[t] = "a_c1w"
    /\ total1' = loc[t].cur1
    /\ notes' = NotesAfterWrite(loc[t])
    /\ loc' = [loc EXCEPT ![t] = LocalsAfterWrite(@)]
    /\ pc' = [pc EXCEPT ![t] = "a_t2"]
    /\ UNCHANGED <<taken, nats, widget, cfg, callers, limits, cmp, indexCmp, readers, nextId, elems,
                   recLock, elemCount, keyIndex, monitors, orderedIndex,
                   orderedMtx, idx1, total2, combinedMtx, known, ops>>

\* not combined, total 2: apply_total2(d2), which is total2_ += d2 or, with
\* the caller's apply function, cur = total2_.get() and apply2_(cur, d2)
ApplyTotal2(t) ==
    /\ pc[t] = "a_t2"
    /\ IF cfg.custom
       THEN /\ \A u \in Threads \ {t} : ~HoldsTotal2(u)
            /\ loc' = [loc EXCEPT ![t].read2 = total2,
                                  ![t].cur2 = CustomApply(total2, loc[t].d2)]
            /\ pc' = [pc EXCEPT ![t] = "a_c2w"]
            /\ UNCHANGED <<total2, notes>>
       ELSE /\ total2' = total2 + loc[t].d2
            /\ notes' = NotesAfterWrite(loc[t])
            /\ loc' = [loc EXCEPT ![t] = LocalsAfterWrite(@)]
            /\ pc' = [pc EXCEPT ![t] = loc[t].ret]
    /\ UNCHANGED <<taken, nats, widget, cfg, callers, limits, cmp, indexCmp, readers, nextId, elems,
                   recLock, elemCount, keyIndex, monitors, orderedIndex,
                   orderedMtx, idx1, total1, combinedMtx, known, ops>>

\* apply_total2 with the caller's function: if (changed) total2_.value(cur)
ApplyCustomWrite2(t) ==
    /\ pc[t] = "a_c2w"
    /\ total2' = loc[t].cur2
    /\ notes' = NotesAfterWrite(loc[t])
    /\ loc' = [loc EXCEPT ![t] = LocalsAfterWrite(@)]
    /\ pc' = [pc EXCEPT ![t] = loc[t].ret]
    /\ UNCHANGED <<taken, nats, widget, cfg, callers, limits, cmp, indexCmp, readers, nextId, elems,
                   recLock, elemCount, keyIndex, monitors, orderedIndex,
                   orderedMtx, idx1, total1, combinedMtx, known, ops>>

\* combined: lock_guard g(combined_mtx_), read both totals, compute cur1,
\* cur2, changed1, changed2 (the count map is updated under the mutex)
CombinedLocals(l) ==
    LET top == TopIndex1(Index1After(l), cfg.mode) IN
    [l EXCEPT !.cur1 = IF cfg.mode = "Add" THEN total1 + l.d1 ELSE top,
              !.ch1 = IF cfg.mode = "Add" THEN TRUE ELSE total1 # top,
              !.cur2 = total2 + l.d2,
              !.ch2 = TRUE]

CombinedLock(t) ==
    /\ pc[t] = "c_lock"
    /\ combinedMtx = 0
    /\ combinedMtx' = t
    /\ idx1' = IF cfg.mode = "Add" THEN idx1 ELSE Index1After(loc[t])
    /\ loc' = [loc EXCEPT ![t] = CombinedLocals(loc[t])]
    /\ pc' = [pc EXCEPT ![t] = "c_w1"]
    /\ UNCHANGED <<taken, nats, widget, cfg, callers, limits, cmp, indexCmp, readers, notes, nextId,
                   elems, recLock, elemCount, keyIndex, monitors, orderedIndex,
                   orderedMtx, total1, total2, known, ops>>

\* combined: if (changed1) total1_.value(cur1), first write of the batch
CombinedWrite1(t) ==
    /\ pc[t] = "c_w1"
    /\ total1' = IF loc[t].ch1 THEN loc[t].cur1 ELSE total1
    /\ pc' = [pc EXCEPT ![t] = "c_w2"]
    /\ UNCHANGED <<taken, nats, widget, cfg, callers, limits, cmp, indexCmp, readers, notes, nextId,
                   elems, recLock, elemCount, keyIndex, monitors, orderedIndex,
                   orderedMtx, idx1, total2, combinedMtx, loc, known, ops>>

\* combined: if (changed2) total2_.value(cur2), second write of the batch;
\* the batch ends (its cycle is sent, or waits for the end of the batch push
\* it is in) and the mutex is released
CombinedWrite2(t) ==
    /\ pc[t] = "c_w2"
    /\ total2' = IF loc[t].ch2 THEN loc[t].cur2 ELSE total2
    /\ combinedMtx' = 0
    /\ notes' = NotesAfterWrite(loc[t])
    /\ loc' = [loc EXCEPT ![t] = LocalsAfterWrite(@)]
    /\ pc' = [pc EXCEPT ![t] = loc[t].ret]
    /\ UNCHANGED <<taken, nats, widget, cfg, callers, limits, cmp, indexCmp, readers, nextId, elems,
                   recLock, elemCount, keyIndex, monitors, orderedIndex,
                   orderedMtx, idx1, total1, known, ops>>

\* ----------------------------------------------------- push_back (batch)

\* the pairs of vals with their keys: (*keys)[i] is K[i], and keys that are
\* missing, or nullptr, give the default key
WithKeys(L, K) ==
    [i \in 1..Len(L) |-> <<L[i][1], L[i][2], IF i <= Len(K) THEN K[i] ELSE 0>>]

\* BatchStart that runs the loop outside reaction::batchExecute
BatchStartNoBatch(t, L, K) ==
    /\ CanLock(t)
    /\ nextId + PendingPushes + Len(L) - 1 <= limits.ids
    /\ ops' = ops + 1
    /\ loc' = [loc EXCEPT ![t] = [NoLoc EXCEPT !.op = "batch",
                                               !.list = WithKeys(L, K),
                                               !.arg = Kept(WithKeys(L, K)),
                                               !.n0 = notes,
                                               !.s0 = Kept(Summary)]]
    /\ pc' = [pc EXCEPT ![t] = IF L = <<>> THEN "ret" ELSE "b_next"]
    /\ UNCHANGED <<taken, nats, widget, cfg, callers, limits, shared, known>>

\* push_back(vals, keys): if (vals.empty()) return; else the loop runs inside
\* reaction::batchExecute
BatchStart(t, L, K) ==
    /\ CanLock(t)
    /\ nextId + PendingPushes + Len(L) - 1 <= limits.ids
    /\ ops' = ops + 1
    /\ loc' = [loc EXCEPT ![t] = [NoLoc EXCEPT !.op = "batch",
                                               !.list = WithKeys(L, K),
                                               !.arg = Kept(WithKeys(L, K)),
                                               !.batch = (L # <<>>),
                                               !.n0 = notes,
                                               !.s0 = Kept(Summary)]]
    /\ pc' = [pc EXCEPT ![t] = IF L = <<>> THEN "ret" ELSE "b_next"]
    /\ UNCHANGED <<taken, nats, widget, cfg, callers, limits, shared, known>>

\* one turn of the loop: push_one_no_batch(vals[i].first, vals[i].second, k),
\* which starts as push_one does; after the last turn batchExecute ends and
\* the cycle that waited is sent
BatchNext(t) ==
    /\ pc[t] = "b_next"
    /\ IF loc[t].list = <<>>
       THEN /\ notes' = IF loc[t].dirty /\ limits.track THEN notes + 1 ELSE notes
            /\ loc' = [loc EXCEPT ![t].batch = FALSE, ![t].dirty = FALSE]
            /\ pc' = [pc EXCEPT ![t] = "ret"]
            /\ UNCHANGED <<nextId, taken>>
       ELSE /\ LET p == Head(loc[t].list) IN
               loc' = [loc EXCEPT ![t].id = nextId, ![t].e1 = p[1], ![t].e2 = p[2],
                                  ![t].key = p[3],
                                  ![t].d1 = DefaultDelta1(p[1], p[2], 0, 0),
                                  ![t].d2 = DefaultDelta2(p[1], p[2], 0, 0),
                                  ![t].xnew = IF cfg.mode = "Add" THEN 0
                                              ELSE DefaultExtract1(p[1], p[2]),
                                  ![t].ret = "p_mon",
                                  ![t].found = FALSE,
                                  ![t].list = Tail(@)]
            /\ nextId' = nextId + 1
            /\ taken' = taken \cup {nextId}
            /\ pc' = [pc EXCEPT ![t] = "p_ins"]
            /\ UNCHANGED notes
    /\ UNCHANGED <<nats, widget, cfg, callers, limits, cmp, indexCmp, readers, elems, recLock,
                   elemCount, keyIndex, monitors, orderedIndex, orderedMtx, idx1,
                   total1, total2, combinedMtx, known, ops>>

\* ------------------------------- elem1Var, elem2Var, find_by_key, erase_by_key

\* ElemVarMissing that returns without throwing
ElemVarMissingNoThrow(t, f, id) ==
    /\ CanLock(t)
    /\ id \notin DOMAIN elems
    /\ ops' = ops + 1
    /\ loc' = [loc EXCEPT ![t] = [NoLoc EXCEPT !.op = "var", !.id = id]]
    /\ pc' = [pc EXCEPT ![t] = "ret"]
    /\ UNCHANGED <<taken, nats, widget, cfg, callers, limits, shared, known>>

\* elem1Var(id) (f = 1) and elem2Var(id) (f = 2) of an id that elems_.find
\* does not find: throw std::out_of_range
ElemVarMissing(t, f, id) ==
    /\ CanLock(t)
    /\ id \notin DOMAIN elems
    /\ ops' = ops + 1
    /\ loc' = [loc EXCEPT ![t] = [NoLoc EXCEPT !.op = "var", !.id = id,
                                               !.thrown = TRUE]]
    /\ pc' = [pc EXCEPT ![t] = "ret"]
    /\ UNCHANGED <<taken, nats, widget, cfg, callers, limits, shared, known>>

\* key_index_.find(acc, k): the id of the entry, NoId when there is none
FindByKey(k) == keyIndex[k]

\* find_by_key(k): res is the id of the entry, or stays empty
FindByKeyCall(t, k) ==
    /\ CanStart(t)
    /\ cfg.keyed
    /\ ops' = ops + 1
    /\ loc' = [loc EXCEPT ![t] = [NoLoc EXCEPT !.op = "find_by_key", !.key = k,
                                               !.res = FindByKey(k)]]
    /\ pc' = [pc EXCEPT ![t] = "ret"]
    /\ UNCHANGED <<taken, nats, widget, cfg, callers, limits, shared, known>>

\* erase_by_key(k): if (key_index_.find(acc, k)) { id = acc->second;
\* acc.release(); ... }
EraseByKeyFind(t, k) ==
    /\ CanLock(t)
    /\ cfg.keyed
    /\ ops' = ops + 1
    /\ loc' = [loc EXCEPT ![t] = [NoLoc EXCEPT !.op = "erase_by_key", !.key = k,
                                               !.id = FindByKey(k)]]
    /\ pc' = [pc EXCEPT ![t] = IF FindByKey(k) # NoId THEN "ek_erase" ELSE "ret"]
    /\ UNCHANGED <<taken, nats, widget, cfg, callers, limits, shared, known>>

\* erase_by_key(k): erase(id), called with lk held; without the coarse lock
\* it starts as EraseFind does
EraseByKeyErase(t) ==
    /\ pc[t] = "ek_erase"
    /\ IF cfg.coarse
       THEN \* erase's maybe_lock() locks the std::mutex that erase_by_key's
            \* lk already owns in this thread: the behaviour is undefined;
            \* the lock() never returns, or it fails with system_error
            /\ \E fails \in BOOLEAN :
                  /\ loc' = [loc EXCEPT ![t].thrown = fails]
                  /\ pc' = [pc EXCEPT ![t] = IF fails THEN "ret" ELSE "ek_stuck"]
            /\ UNCHANGED recLock
       ELSE IF loc[t].id \in DOMAIN elems
       THEN /\ recLock[loc[t].id] = 0
            /\ recLock' = [recLock EXCEPT ![loc[t].id] = t]
            /\ loc' = [loc EXCEPT ![t].found = TRUE]
            /\ pc' = [pc EXCEPT ![t] = "e_read"]
       ELSE /\ pc' = [pc EXCEPT ![t] = "ret"]
            /\ UNCHANGED <<recLock, loc>>
    /\ UNCHANGED <<taken, nats, widget, cfg, callers, limits, cmp, indexCmp, readers, notes, nextId,
                   elems, elemCount, keyIndex, monitors, orderedIndex,
                   orderedMtx, idx1, total1, total2, combinedMtx, known, ops>>

\* ------------------------------------------------------- top_k, bottom_k

\* top_k(k) / bottom_k(k): an empty list at once without the ordered index
ReadStart(t, op, k) ==
    /\ CanStart(t)
    /\ ops' = ops + 1
    /\ loc' = [loc EXCEPT ![t] = [NoLoc EXCEPT !.op = op, !.k = k]]
    /\ pc' = [pc EXCEPT ![t] = IF cfg.ordered THEN "r_lock" ELSE "ret"]
    /\ UNCHANGED <<taken, nats, widget, cfg, callers, limits, shared, known>>

\* std::shared_lock<std::shared_mutex> lock(ordered_mtx_)
ReadLock(t) ==
    /\ pc[t] = "r_lock"
    /\ orderedMtx = 0
    /\ readers' = readers \cup {t}
    /\ pc' = [pc EXCEPT ![t] = "r_iter"]
    /\ UNCHANGED <<taken, nats, widget, cfg, callers, limits, cmp, indexCmp, notes, nextId, elems, recLock,
                   elemCount, keyIndex, monitors, orderedIndex, orderedMtx, idx1,
                   total1, total2, combinedMtx, loc, known, ops>>

\* ReadStep whose loop runs while out.size() <= k
ReadStepOneMore(t) ==
    /\ pc[t] = "r_iter"
    /\ LET n == Len(loc[t].out) IN
       IF n < Len(orderedIndex) /\ n <= loc[t].k
       THEN /\ loc' = [loc EXCEPT ![t].out =
                         Append(@, IF loc[t].op = "top_k"
                                   THEN orderedIndex[Len(orderedIndex) - n]
                                   ELSE orderedIndex[n + 1])]
            /\ UNCHANGED <<readers, pc>>
       ELSE /\ readers' = readers \ {t}
            /\ pc' = [pc EXCEPT ![t] = "ret"]
            /\ UNCHANGED loc
    /\ UNCHANGED <<taken, nats, widget, cfg, callers, limits, cmp, indexCmp, notes, nextId, elems, recLock,
                   elemCount, keyIndex, monitors, orderedIndex, orderedMtx, idx1,
                   total1, total2, combinedMtx, known, ops>>

\* one turn of the loop: it != end && out.size() < k, out.push_back(*it), ++it
\* (from rbegin in top_k, from begin in bottom_k); at the loop's end the lock's
\* scope ends and out is returned
ReadStep(t) ==
    /\ pc[t] = "r_iter"
    /\ LET n == Len(loc[t].out) IN
       IF n < Len(orderedIndex) /\ n < loc[t].k
       THEN /\ loc' = [loc EXCEPT ![t].out =
                         Append(@, IF loc[t].op = "top_k"
                                   THEN orderedIndex[Len(orderedIndex) - n]
                                   ELSE orderedIndex[n + 1])]
            /\ UNCHANGED <<readers, pc>>
       ELSE /\ readers' = readers \ {t}
            /\ pc' = [pc EXCEPT ![t] = "ret"]
            /\ UNCHANGED loc
    /\ UNCHANGED <<taken, nats, widget, cfg, callers, limits, cmp, indexCmp, notes, nextId, elems, recLock,
                   elemCount, keyIndex, monitors, orderedIndex, orderedMtx, idx1,
                   total1, total2, combinedMtx, known, ops>>

\* ------------------------------------- set_compare, rebuild_ordered_index

\* set_compare(new_cmp): cmp_ = compare_fn_t(new_cmp), under no lock of the
\* index; then the index is rebuilt
SetCompareStore(t, c) ==
    /\ CanStart(t)
    /\ MaybeLock(t)
    /\ ops' = ops + 1
    /\ cmp' = c
    /\ loc' = [loc EXCEPT ![t] = [NoLoc EXCEPT !.op = "set_compare"]]
    /\ pc' = [pc EXCEPT ![t] = IF cfg.ordered THEN "sc_lock" ELSE "ret"]
    /\ UNCHANGED <<taken, nats, widget, cfg, callers, limits, indexCmp, readers, notes, nextId, elems, recLock,
                   elemCount, keyIndex, monitors, orderedIndex, orderedMtx, idx1,
                   total1, total2, combinedMtx, known>>

\* rebuild_ordered_index(): returns at once without the ordered index
RebuildStart(t) ==
    /\ CanStart(t)
    /\ ops' = ops + 1
    /\ loc' = [loc EXCEPT ![t] = [NoLoc EXCEPT !.op = "rebuild"]]
    /\ pc' = [pc EXCEPT ![t] = IF cfg.ordered THEN "sc_lock" ELSE "ret"]
    /\ UNCHANGED <<taken, nats, widget, cfg, callers, limits, shared, known>>

\* new_set->insert(it->first) for every record of elems_, in the map's order
RECURSIVE BuildIndex(_, _, _, _)
BuildIndex(c, E, s, todo) ==
    IF todo = {} THEN {s}
    ELSE UNION {UNION {BuildIndex(c, E, s2, todo \ {i}) :
                         s2 \in SetInsert(c, E, s, i)} : i \in todo}

\* SetCompareBuild that inserts the ids into the set that is there, with
\* the new comparator, instead of into a new one
SetCompareBuildInPlace(t) ==
    /\ pc[t] = "sc_build"
    /\ Cardinality(DOMAIN elems) > 1 => \A i \in DOMAIN elems : recLock[i] = 0
    /\ orderedIndex' \in BuildIndex(cmp, elems, orderedIndex, DOMAIN elems)
    /\ indexCmp' = cmp
    /\ orderedMtx' = 0
    /\ loc' = [loc EXCEPT ![t].arg = Kept(orderedIndex)]
    /\ pc' = [pc EXCEPT ![t] = "ret"]
    /\ UNCHANGED <<taken, nats, widget, cfg, callers, limits, cmp, readers, notes, nextId, elems, recLock,
                   elemCount, keyIndex, monitors, idx1, total1, total2,
                   combinedMtx, known, ops>>

\* under the exclusive lock: new_set.emplace(IdComparator(this, cmp_)), the
\* inserts, ordered_index_.swap(new_set); the lock's scope ends (the index
\* that is replaced is recorded where the callers' limits ask for it)
SetCompareBuild(t) ==
    /\ pc[t] = "sc_build"
    /\ Cardinality(DOMAIN elems) > 1 => \A i \in DOMAIN elems : recLock[i] = 0
    /\ orderedIndex' \in BuildIndex(cmp, elems, <<>>, DOMAIN elems)
    /\ indexCmp' = cmp
    /\ orderedMtx' = 0
    /\ loc' = [loc EXCEPT ![t].arg = Kept(orderedIndex)]
    /\ pc' = [pc EXCEPT ![t] = "ret"]
    /\ UNCHANGED <<taken, nats, widget, cfg, callers, limits, cmp, readers, notes, nextId, elems, recLock,
                   elemCount, keyIndex, monitors, idx1, total1, total2,
                   combinedMtx, known, ops>>

\* --------------------------------- AsyncTableWidget, ReactiveListWidget

\* what a read of a row that is not there, or is being written, may give
Garbage == <<0, 0>>

Reverse(q) == [j \in 1..Len(q) |-> q[Len(q) + 1 - j]]

\* the Refresh in progress has chosen buffer b and is clearing, filling or
\* sorting it
RefreshWrites(b) ==
    widget.rpc \in {"clear", "fill", "sort"} /\ widget.back = b

\* Refresh: without a callback it returns; else currentFront =
\* m_frontIndex.load(relaxed), backIdx = 1 - currentFront
RefreshStart(n, d) ==
    /\ widget.rpc = "idle"
    /\ widget.refreshes < MaxRefresh
    /\ widget' = IF widget.callback
                 THEN [widget EXCEPT !.refreshes = @ + 1, !.rpc = "clear",
                                     !.back = 1 - widget.front,
                                     !.ver = widget.refreshes + 1,
                                     !.want = n, !.desc = d]
                 ELSE [widget EXCEPT !.refreshes = @ + 1]
    /\ UNCHANGED <<nats, cvars>>

\* backBuffer.clear()
RefreshClear ==
    /\ widget.rpc = "clear"
    /\ widget' = [widget EXCEPT !.buf[widget.back] = <<>>, !.rpc = "fill"]
    /\ UNCHANGED <<nats, cvars>>

\* m_refreshCallback(backBuffer): the rows are appended one by one
RefreshFill ==
    /\ widget.rpc = "fill"
    /\ LET q == widget.buf[widget.back] IN
       widget' = IF Len(q) < widget.want
                 THEN [widget EXCEPT !.buf[widget.back] =
                                        Append(q, <<widget.ver, Len(q) + 1>>)]
                 ELSE [widget EXCEPT !.rpc = "sort"]
    /\ UNCHANGED <<nats, cvars>>

\* std::stable_sort of the back buffer when sort specs are set (here: rows
\* in descending order)
RefreshSort ==
    /\ widget.rpc = "sort"
    /\ widget' = [widget EXCEPT !.buf[widget.back] =
                                   IF widget.desc THEN Reverse(@) ELSE @,
                                !.rpc = "swap"]
    /\ UNCHANGED <<nats, cvars>>

\* m_frontIndex.store(backIdx, release)
RefreshSwap ==
    /\ widget.rpc = "swap"
    /\ widget' = [widget EXCEPT !.front = widget.back, !.rpc = "idle"]
    /\ UNCHANGED <<nats, cvars>>

\* Render: frontIdx = m_frontIndex.load(acquire), rows = m_buffers[frontIdx]
RenderStart ==
    /\ widget.gpc = "idle"
    /\ widget.renders < MaxRender
    /\ widget' = [widget EXCEPT !.renders = @ + 1, !.gpc = "size",
                                !.f = widget.front, !.n = 0, !.i = 1,
                                !.seen = <<>>]
    /\ UNCHANGED <<nats, cvars>>

\* Render: the indices 0 .. rows.size() - 1 are collected
RenderSize ==
    /\ widget.gpc = "size"
    /\ widget' = [widget EXCEPT !.n = Len(widget.buf[widget.f]), !.gpc = "rows"]
    /\ UNCHANGED <<nats, cvars>>

\* Render: rowData = rows[dataIdx] for each collected index; a row of a
\* buffer that Refresh is writing, or that is no longer there, reads as its
\* value or as anything else; after the last row Render returns
RenderRow ==
    /\ widget.gpc = "rows"
    /\ LET q == widget.buf[widget.f]
           there == widget.i <= Len(q)
           raced == RefreshWrites(widget.f) \/ ~there
       IN  IF widget.i <= widget.n
           THEN \E r \in (IF there THEN {q[widget.i]} ELSE {})
                             \cup (IF raced THEN {Garbage} ELSE {}) :
                   widget' = [widget EXCEPT !.seen = Append(@, r), !.i = @ + 1]
           ELSE widget' = [widget EXCEPT !.gpc = "idle"]
    /\ UNCHANGED <<nats, cvars>>

\* one widget with or without a refresh callback, its refresher thread and
\* the GUI thread; nothing calls into the collection
InitWidget ==
    /\ cfg \in {c \in Configs : ~c.ordered /\ ~c.keyed}
    /\ callers = 0
    /\ limits = AnyCalls(0)
    /\ InitState
    /\ widget \in {[NoWidget EXCEPT !.callback = c, !.refreshes = 0,
                                    !.renders = 0] : c \in BOOLEAN}
    /\ nats = NoNats

NextWidget ==
    \/ \E n \in 0..MaxRows, d \in BOOLEAN : RefreshStart(n, d)
    \/ RefreshClear
    \/ RefreshFill
    \/ RefreshSort
    \/ RefreshSwap
    \/ RenderStart
    \/ RenderSize
    \/ RenderRow

SpecWidget == InitWidget /\ [][NextWidget]_vars

\* ------------------------------------------------------- specifications

\* ------------------------------------------ ~ReactiveTwoFieldCollection

\* the destructor without monitors_.clear(): the monitors stay open until
\* the members are destroyed
DtorMonitorsKeep(t) ==
    /\ pc[t] = "idle" /\ t <= callers
    /\ Quiescent /\ ~Destroying
    /\ pc' = [pc EXCEPT ![t] = "d_idx"]
    /\ UNCHANGED <<taken, nats, widget, cfg, callers, limits, shared, loc, known, ops>>

\* the destructor is entered, no member function being in a call:
\* monitors_.clear() destroys the monitors' handles, which closes them
DtorMonitors(t) ==
    /\ pc[t] = "idle" /\ t <= callers
    /\ Quiescent /\ ~Destroying
    /\ monitors' = {}
    /\ pc' = [pc EXCEPT ![t] = "d_idx"]
    /\ UNCHANGED <<taken, nats, widget, cfg, callers, limits, cmp, indexCmp, readers, notes,
                   nextId, elems, recLock, elemCount, keyIndex, orderedIndex,
                   orderedMtx, idx1, total1, total2, combinedMtx, loc, known, ops>>

\* unique_lock lock(ordered_mtx_); ordered_index_.reset(); the lock's scope ends
DtorIndex(t) ==
    /\ pc[t] = "d_idx"
    /\ orderedMtx = 0 /\ readers = {}
    /\ orderedIndex' = <<>>
    /\ pc' = [pc EXCEPT ![t] = "d_key"]
    /\ UNCHANGED <<taken, nats, widget, cfg, callers, limits, cmp, indexCmp, readers, notes,
                   nextId, elems, recLock, elemCount, keyIndex, monitors,
                   orderedMtx, idx1, total1, total2, combinedMtx, loc, known, ops>>

\* key_index_.clear(), in a keyed collection
DtorKeyIndex(t) ==
    /\ pc[t] = "d_key"
    /\ keyIndex' = IF cfg.keyed THEN [k \in Keys |-> NoId] ELSE keyIndex
    /\ pc' = [pc EXCEPT ![t] = "d_members"]
    /\ UNCHANGED <<taken, nats, widget, cfg, callers, limits, cmp, indexCmp, readers, notes,
                   nextId, elems, recLock, elemCount, monitors, orderedIndex,
                   orderedMtx, idx1, total1, total2, combinedMtx, loc, known, ops>>

\* the members are destroyed in the reverse of their declaration order:
\* key_index_, the count maps, ordered_index_, monitors_ (all empty by now),
\* then elems_ and with it the records and their cells
DtorMembers(t) ==
    /\ pc[t] = "d_members"
    /\ \A i \in DOMAIN elems : recLock[i] = 0
    /\ elems' = <<>>
    /\ pc' = [pc EXCEPT ![t] = "gone"]
    /\ UNCHANGED <<taken, nats, widget, cfg, callers, limits, cmp, indexCmp, readers, notes,
                   nextId, recLock, elemCount, keyIndex, monitors, orderedIndex,
                   orderedMtx, idx1, total1, total2, combinedMtx, loc, known, ops>>

\* pushes and sets by two threads, then the destructor, during which a
\* thread that holds a cell's handle may still set it
InitDtor ==
    /\ cfg \in Configs
    /\ callers = NumThreads
    /\ limits = [AnyCalls(MaxDtorOps) EXCEPT
                    !.pairs = {<<1, 1>>},
                    !.calls = [t \in Threads |-> {"push", "set"}]]
    /\ InitState
    /\ widget = NoWidget
    /\ nats = NoNats

NextDtor ==
    \E t \in Threads :
        \/ \E p \in PairsFor(nextId), k \in Keys :
              MayCall(t, "push") /\ (cfg.keyed \/ k = 0) /\ PushAlloc(t, p[1], p[2], k)
        \/ \E id \in known, f \in 1..2, v \in limits.vals :
              MayCall(t, "set") /\ SetCell(t, id, f, v)
        \/ PushStore(t)
        \/ PushCount(t)
        \/ PushKey(t)
        \/ AcquireOrdered(t)
        \/ PushIndexInsert(t)
        \/ PushMonitor(t)
        \/ MonitorFind(t)
        \/ MonitorUpdate(t)
        \/ MonitorReinsert(t)
        \/ ApplyTotal1(t)
        \/ ApplyWrite1(t)
        \/ ApplyTotal2(t)
        \/ CombinedLock(t)
        \/ CombinedWrite1(t)
        \/ CombinedWrite2(t)
        \/ Return(t)
        \/ DtorMonitors(t)
        \/ DtorIndex(t)
        \/ DtorKeyIndex(t)
        \/ DtorMembers(t)

SpecDtor == InitDtor /\ [][NextDtor]_vars


\* ------------------------- ordered_begin / ordered_end, OrderedConstIterator

\* a caller starts the loop
\*   for (it = ordered_begin(); it != ordered_end(); ++it) use(*it);
\* without the ordered index both calls return the default iterator, which
\* are equal
IterStart(t) ==
    /\ CanStart(t)
    /\ ops' = ops + 1
    /\ loc' = [loc EXCEPT ![t] = [NoLoc EXCEPT !.op = "iterate"]]
    /\ pc' = [pc EXCEPT ![t] = IF cfg.ordered THEN "it_begin" ELSE "ret"]
    /\ UNCHANGED <<taken, nats, widget, cfg, callers, limits, shared, known>>

\* ordered_begin(): shared_lock lock(ordered_mtx_), ordered_index_->cbegin(),
\* and the lock's scope ends with the return; list is the tree the iterator
\* points into, k the nodes it has passed
IterBegin(t) ==
    /\ pc[t] = "it_begin"
    /\ orderedMtx = 0
    /\ loc' = [loc EXCEPT ![t].list = orderedIndex, ![t].k = 0]
    /\ pc' = [pc EXCEPT ![t] = "it_end"]
    /\ UNCHANGED <<taken, nats, widget, cfg, callers, limits, shared, known, ops>>

\* it != ordered_end(): ordered_end() takes and drops the shared lock, then
\* the iterators are compared
IterEnd(t) ==
    /\ pc[t] = "it_end"
    /\ orderedMtx = 0
    /\ pc' = [pc EXCEPT ![t] = IF loc[t].k < Len(loc[t].list) THEN "it_read"
                               ELSE "ret"]
    /\ UNCHANGED <<taken, nats, widget, cfg, callers, limits, shared, loc, known, ops>>

\* *it and ++it: the node's id and links are read under no lock of the
\* index (operator* then takes a const_accessor on the record).  A node of a
\* tree that was written since the iterator was obtained, or of a set that
\* set_compare has destroyed, gives any id or none.
IterRead(t) ==
    /\ pc[t] = "it_read"
    /\ \E id \in IF orderedIndex = loc[t].list THEN {loc[t].list[loc[t].k + 1]}
                 ELSE Ids \cup {NoId} :
          /\ id \in DOMAIN elems => recLock[id] = 0
          /\ loc' = [loc EXCEPT ![t].out = Append(@, id), ![t].k = @ + 1]
    /\ pc' = [pc EXCEPT ![t] = "it_end"]
    /\ UNCHANGED <<taken, nats, widget, cfg, callers, limits, shared, known, ops>>

\* two threads that push and traverse an ordered index
InitIter ==
    /\ cfg \in {c \in Configs : c.ordered}
    /\ callers = NumThreads
    /\ limits = [AnyCalls(MaxIterOps) EXCEPT
                    !.pairs = {<<1, 1>>, <<MaxVal, 1>>},
                    !.calls = [t \in Threads |-> {"push", "iterate"}]]
    /\ InitState
    /\ widget = NoWidget
    /\ nats = NoNats

NextIter ==
    \E t \in Threads :
        \/ \E p \in PairsFor(nextId), k \in Keys :
              MayCall(t, "push") /\ (cfg.keyed \/ k = 0) /\ PushAlloc(t, p[1], p[2], k)
        \/ MayCall(t, "iterate") /\ IterStart(t)
        \/ IterBegin(t)
        \/ IterEnd(t)
        \/ IterRead(t)
        \/ PushStore(t)
        \/ PushCount(t)
        \/ PushKey(t)
        \/ AcquireOrdered(t)
        \/ PushIndexInsert(t)
        \/ PushMonitor(t)
        \/ ApplyTotal1(t)
        \/ ApplyWrite1(t)
        \/ ApplyTotal2(t)
        \/ CombinedLock(t)
        \/ CombinedWrite1(t)
        \/ CombinedWrite2(t)
        \/ Return(t)

SpecIter == InitIter /\ [][NextIter]_vars

\* ------------------------------------------------------- the coarse lock

\* a keyed collection built with or without the coarse lock; two threads
\* push one pair under a key, erase by id and erase by key
InitCoarse ==
    /\ cfg \in {[c EXCEPT !.coarse = b] : c \in {d \in Configs : d.keyed},
                                             b \in BOOLEAN}
    /\ callers = NumThreads
    /\ limits = [AnyCalls(MaxCoarseOps) EXCEPT
                    !.pairs = {<<1, 1>>},
                    !.calls = [t \in Threads |-> {"push", "erase", "erase_by_key"}]]
    /\ InitState
    /\ widget = NoWidget
    /\ nats = NoNats

NextCoarse ==
    \E t \in Threads :
        \/ \E p \in PairsFor(nextId), k \in Keys : PushAlloc(t, p[1], p[2], k)
        \/ \E id \in known \cup {NoId} : EraseFind(t, id)
        \/ \E k \in Keys : EraseByKeyFind(t, k)
        \/ EraseByKeyErase(t)
        \/ PushStore(t)
        \/ PushCount(t)
        \/ PushKey(t)
        \/ AcquireOrdered(t)
        \/ PushIndexInsert(t)
        \/ PushMonitor(t)
        \/ EraseRead(t)
        \/ EraseIndex(t)
        \/ EraseKey(t)
        \/ EraseMonitor(t)
        \/ EraseStore(t)
        \/ EraseCount(t)
        \/ CombinedLock(t)
        \/ CombinedWrite1(t)
        \/ CombinedWrite2(t)
        \/ Return(t)

SpecCoarse == InitCoarse /\ [][NextCoarse]_vars

\* ------------------------------------------- the caller's apply functions

\* Add mode, each total published on its own, the caller's apply functions,
\* with and without RequireCoarseLock; two threads push, erase and set
InitApply ==
    /\ cfg \in {[c EXCEPT !.custom = TRUE, !.require = b, !.coarse = b] :
                   c \in {d \in Configs : d.mode = "Add" /\ ~d.combined},
                   b \in BOOLEAN}
    /\ callers = NumThreads
    /\ limits = [AnyCalls(MaxApplyOps) EXCEPT
                    !.pairs = {<<1, 1>>},
                    !.calls = [t \in Threads |-> {"push", "erase", "set"}]]
    /\ InitState
    /\ widget = NoWidget
    /\ nats = NoNats

NextApply ==
    \E t \in Threads :
        \/ \E p \in PairsFor(nextId) : PushAlloc(t, p[1], p[2], 0)
        \/ \E id \in known \cup {NoId} : EraseFind(t, id)
        \/ \E id \in known, f \in 1..2, v \in limits.vals : SetCell(t, id, f, v)
        \/ PushStore(t)
        \/ PushCount(t)
        \/ PushMonitor(t)
        \/ EraseRead(t)
        \/ EraseMonitor(t)
        \/ EraseStore(t)
        \/ EraseCount(t)
        \/ MonitorFind(t)
        \/ MonitorUpdate(t)
        \/ ApplyTotal1(t)
        \/ ApplyCustomWrite1(t)
        \/ ApplyTotal2(t)
        \/ ApplyCustomWrite2(t)
        \/ Return(t)

SpecApply == InitApply /\ [][NextApply]_vars

\* ------------------------------------------------------------ NatsClient
\* src/nats_client_native.cpp: a caller thread calls Connect and Disconnect;
\* Connect starts a detached thread that connects and publishes the result.
\* nativeData is 0 for nullptr, i for the NativeData made by connect thread i.

\* Connect: under m_stateMutex, return false while a connect is under way,
\* else m_status = "Connecting..." and a detached thread is started
Connect ==
    /\ nats.calls < MaxNatsCalls
    /\ IF nats.status = "Connecting..."
       THEN nats' = [nats EXCEPT !.calls = @ + 1]
       ELSE \E i \in Connects :
               /\ nats.thread[i] = "none"
               /\ \A j \in Connects : j < i => nats.thread[j] # "none"
               /\ nats' = [nats EXCEPT !.calls = @ + 1,
                                       !.status = "Connecting...",
                                       !.thread[i] = "connect"]
    /\ UNCHANGED <<widget, cvars>>

\* the connect thread: natsConnection_Connect(&conn, opts) succeeds or fails
ThreadConnect(i) ==
    /\ nats.thread[i] = "connect"
    /\ \E ok \in BOOLEAN :
          nats' = [nats EXCEPT !.thread[i] = IF ok THEN "ok" ELSE "failed"]
    /\ UNCHANGED <<widget, cvars>>

\* the connect thread, under m_stateMutex: m_nativeData = nd and m_status =
\* "Connected", or m_status = "Failed"
ThreadStatus(i) ==
    /\ nats.thread[i] \in {"ok", "failed"}
    /\ nats' = IF nats.thread[i] = "ok"
               THEN [nats EXCEPT !.nativeData = i, !.status = "Connected",
                                 !.thread[i] = "store_true"]
               ELSE [nats EXCEPT !.status = "Failed",
                                 !.thread[i] = "store_false"]
    /\ UNCHANGED <<widget, cvars>>

\* the connect thread, after the mutex is released: m_connected.store(...)
ThreadStore(i) ==
    /\ nats.thread[i] \in {"store_true", "store_false"}
    /\ nats' = [nats EXCEPT !.connected = (nats.thread[i] = "store_true"),
                            !.thread[i] = "done"]
    /\ UNCHANGED <<widget, cvars>>

\* Disconnect, all of it under m_stateMutex: the NativeData is closed and
\* deleted, m_nativeData = nullptr, m_connected.store(false)
Disconnect ==
    /\ nats.calls < MaxNatsCalls
    /\ nats' = [nats EXCEPT !.calls = @ + 1,
                            !.destroyed = IF nats.nativeData # 0
                                          THEN @ \cup {nats.nativeData} ELSE @,
                            !.nativeData = 0,
                            !.connected = FALSE]
    /\ UNCHANGED <<widget, cvars>>

\* IsConnected(): m_connected.load()
IsConnected == nats.connected

\* a NatsClient after its constructor; nothing calls into a collection
InitNats ==
    /\ cfg \in {c \in Configs : ~c.ordered /\ ~c.keyed}
    /\ callers = 0
    /\ limits = AnyCalls(0)
    /\ InitState
    /\ widget = NoWidget
    /\ nats = [NoNats EXCEPT !.calls = 0]

NextNats ==
    \/ Connect
    \/ Disconnect
    \/ \E i \in Connects : ThreadConnect(i) \/ ThreadStatus(i) \/ ThreadStore(i)

SpecNats == InitNats /\ [][NextNats]_vars


\* a caller starts a call
Call(t) ==
    \/ \E p \in PairsFor(nextId), k \in Keys :
          MayCall(t, "push") /\ (cfg.keyed \/ k = 0) /\ PushAlloc(t, p[1], p[2], k)
    \/ /\ MayCall(t, "batch") /\ CanStart(t)
       /\ \E L \in ListsOf(PairsFor(nextId), limits.batch) :
             \E K \in IF cfg.keyed THEN ListsOf(Keys \ {0}, Len(L)) ELSE {<<>>} :
                BatchStart(t, L, K)
    \/ \E id \in known \cup {NoId} : MayCall(t, "erase") /\ EraseFind(t, id)
    \/ \E id \in known \cup {NoId}, f \in 1..2 :
          MayCall(t, "var") /\ ElemVarMissing(t, f, id)
    \/ \E k \in Keys : MayCall(t, "find_by_key") /\ FindByKeyCall(t, k)
    \/ \E k \in Keys : MayCall(t, "erase_by_key") /\ EraseByKeyFind(t, k)
    \/ \E id \in known, f \in 1..2, v \in limits.vals :
          MayCall(t, "set") /\ SetCell(t, id, f, v)
    \/ \E op \in {"top_k", "bottom_k"}, k \in 0..MaxK :
          MayCall(t, "read") /\ ReadStart(t, op, k)
    \/ \E c \in Cmps : MayCall(t, "set_compare") /\ SetCompareStore(t, c)
    \/ MayCall(t, "rebuild") /\ RebuildStart(t)

\* the next step of the call a thread is in
Step(t) ==
    \/ PushStore(t)
    \/ PushCount(t)
    \/ PushKey(t)
    \/ AcquireOrdered(t)
    \/ PushIndexInsert(t)
    \/ PushMonitor(t)
    \/ BatchNext(t)
    \/ EraseByKeyErase(t)
    \/ EraseRead(t)
    \/ EraseIndex(t)
    \/ EraseKey(t)
    \/ EraseMonitor(t)
    \/ EraseStore(t)
    \/ EraseCount(t)
    \/ MonitorFind(t)
    \/ MonitorUpdate(t)
    \/ MonitorReinsert(t)
    \/ ApplyTotal1(t)
    \/ ApplyWrite1(t)
    \/ ApplyTotal2(t)
    \/ CombinedLock(t)
    \/ CombinedWrite1(t)
    \/ CombinedWrite2(t)
    \/ ReadLock(t)
    \/ ReadStep(t)
    \/ SetCompareBuild(t)
    \/ Return(t)

Next == \E t \in Threads : Call(t) \/ Step(t)

Spec == Init /\ [][Next]_vars


SpecSeq == InitSeq /\ [][Next]_vars

\* one caller thread makes any calls of two pairs, with enough ids for a
\* batch push into a collection that is not empty; the state each call starts
\* in is kept
InitBatch ==
    /\ cfg \in Configs
    /\ callers = 1
    /\ limits = [AnyCalls(MaxBatchOps) EXCEPT
                    !.ids = MaxBatchIds,
                    !.batch = MaxBatch,
                    !.pairs = {<<1, MaxVal>>, <<MaxVal, 1>>},
                    !.track = TRUE]
    /\ InitState
    /\ widget = NoWidget
    /\ nats = NoNats

SpecBatch == InitBatch /\ [][Next]_vars

\* thread 1 makes any call, the others push, erase and set; one pair is
\* pushed
InitFair ==
    /\ cfg \in Configs
    /\ callers = NumThreads
    /\ limits = [AnyCalls(MaxOps) EXCEPT
                    !.pairs = {<<1, 1>>},
                    !.calls = FirstAny({"push", "erase", "set"})]
    /\ InitState
    /\ widget = NoWidget
    /\ nats = NoNats

\* thread 1 makes any calls, one after the other, of two pairs and any
\* value, while the other threads replace the comparator
InitCmp ==
    /\ cfg \in Configs
    /\ callers = NumThreads
    /\ limits = [AnyCalls(MaxCmpOps) EXCEPT
                    !.pairs = {<<1, 1>>, <<MaxVal, 1>>},
                    !.calls = FirstAny({"set_compare"})]
    /\ InitState
    /\ widget = NoWidget
    /\ nats = NoNats

SpecCmp == InitCmp /\ [][Next]_vars

\* ordering enabled; one caller thread makes any calls, pushing the pairs of
\* the ordering scenario in their order and setting the scenario's value
InitScenC ==
    /\ cfg \in {c \in Configs : c.ordered}
    /\ callers = 1
    /\ limits = [AnyCalls(MaxScenOps) EXCEPT
                    !.ids = Len(ScenarioC),
                    !.seq = ScenarioC,
                    !.vals = {ScenarioCSet[2]}]
    /\ InitState
    /\ widget = NoWidget
    /\ nats = NoNats

SpecScenC == InitScenC /\ [][Next]_vars

\* threads are scheduled fairly: a call that can take its next step takes it
SpecFair == InitFair /\ [][Next]_vars /\ \A t \in Threads : WF_vars(Step(t))

\* ------------------------------------------------------------ properties


Live == DOMAIN elems

RECURSIVE SumOver(_, _)
SumOver(S, f) ==
    IF S = {} THEN 0
    ELSE LET x == CHOOSE y \in S : TRUE IN f[x] + SumOver(S \ {x}, f)

\* the sum of elem2, and of elem1 * elem2, over the live elements
LiveSum1 == SumOver(Live, [i \in Live |-> elems[i].cell2])
LiveSum2 == SumOver(Live, [i \in Live |-> elems[i].cell1 * elems[i].cell2])

\* extract1 over the live elements
LiveExtracts == {DefaultExtract1(elems[i].cell1, elems[i].cell2) : i \in Live}

\* C1: in Add mode, at every quiescent point total1() is the sum of elem2
\* over the live elements, whatever the interleaving was.
C1_Conservation ==
    (cfg.mode = "Add" /\ Quiescent) => total1 = LiveSum1

\* C2: in Min (Max) mode, at every quiescent point with a live element,
\* total1() is the minimum (maximum) of extract1 over the live elements.
C2_MinMaxIsExtreme ==
    (cfg.mode # "Add" /\ Quiescent /\ Live # {}) =>
        /\ total1 \in LiveExtracts
        /\ \A x \in LiveExtracts :
              IF cfg.mode = "Min" THEN total1 <= x ELSE total1 >= x

\* C3: in combined-atomic mode no state shows total1 already carrying a
\* mutation's new value while total2 does not carry it yet.
C3_NoHalfAppliedPair ==
    cfg.combined =>
        \A t \in Threads :
            ~(/\ pc[t] = "c_w2"
              /\ loc[t].ch1 /\ loc[t].ch2
              /\ loc[t].d1 # 0 /\ loc[t].d2 # 0
              /\ total1 = loc[t].cur1
              /\ total2 # loc[t].cur2)

\* C4: not combined, both totals in Add mode: at every quiescent point
\* total2() is the sum of elem1 * elem2 over the live elements.
C4_Total2Fold ==
    (cfg.mode = "Add" /\ ~cfg.combined /\ Quiescent) => total2 = LiveSum2

\* C5: with the ordered index, at every quiescent point the ids of the index
\* are the ids of the store.
C5_IndexIdsAreStoreIds ==
    (cfg.ordered /\ Quiescent) => Range(orderedIndex) = Live

\* C6: at every quiescent point size() is the number of ids in the store and
\* empty() holds exactly when there is none.
C6_SizeIsStoreCount ==
    Quiescent =>
        /\ elemCount = Cardinality(Live)
        /\ (elemCount = 0) <=> (Live = {})

\* C7: keyed collection, at every quiescent point: find_by_key(k) is Some(id)
\* iff an element with key k is alive, and then id is a live record of key k.
C7_FindByKeyIffAlive ==
    (cfg.keyed /\ Quiescent) =>
        \A k \in Keys :
            /\ (FindByKey(k) # NoId) <=> (\E i \in Live : elems[i].key = k)
            /\ FindByKey(k) # NoId =>
                  (FindByKey(k) \in Live /\ elems[FindByKey(k)].key = k)

\* C8: keyed collection, one caller: when erase(id) of a live element of key
\* k returns, find_by_key(k) is None.
C8_EraseUnmapsKey ==
    \A t \in Threads :
        (cfg.keyed /\ pc[t] = "ret" /\ loc[t].op = "erase" /\ loc[t].found)
            => FindByKey(loc[t].key) = NoId

C8_Witness ==
    \E t \in Threads :
        /\ cfg.keyed /\ pc[t] = "ret" /\ loc[t].op = "erase" /\ loc[t].found
        /\ loc[t].key # 0
        /\ \E i \in Live : elems[i].key = loc[t].key

\* C9: erase(id) of an id that is not in the store returns at once and
\* changes nothing of the collection (totals, size, indices, monitors,
\* store); so does the return itself.
C9_AbsentEraseChangesNothing ==
    [][\A t \in Threads :
          /\ (pc[t] = "idle" /\ loc'[t].op = "erase"
                /\ loc'[t].id \notin DOMAIN elems)
                => (pc'[t] = "ret" /\ UNCHANGED shared)
          /\ (pc[t] = "ret" /\ loc[t].op = "erase" /\ ~loc[t].found
                /\ pc'[t] # "ret")
                => (pc'[t] = "idle" /\ UNCHANGED shared)]_vars

\* an erase of an absent id has run to its return while the collection holds
\* an element, its monitor and its contribution to the totals
C9_Witness ==
    \E t \in Threads :
        /\ pc[t] = "ret" /\ loc[t].op = "erase" /\ ~loc[t].found
        /\ Live # {} /\ monitors # {}
        /\ elemCount > 0 /\ total2 # 0

\* C10: no thread holds a record's write accessor when it is about to
\* acquire the ordered-index lock.
C10_NoRecordLockAtIndexLock ==
    \A t \in Threads :
        pc[t] \in {"p_lock", "e_lock", "m_lock"} =>
            \A i \in Ids : recLock[i] # t

\* each of push_back, erase and the change monitor reaches the lock while
\* another thread holds a record
C10_Witness ==
    /\ \E t \in Threads : pc[t] = "m_lock"
    /\ \E i \in Ids : recLock[i] # 0

\* C11: under fair scheduling every call that has started returns: no state
\* is reached where a thread waits for ever for a record, the index lock or
\* the combined mutex.
C11_EveryCallReturns ==
    \A t \in Threads : (pc[t] # "idle") ~> (pc[t] = "idle")

\* a thread inside the index, under the exclusive lock, has to wait for a
\* record that another thread holds, while that thread is in a change monitor
C11_Witness ==
    \E t \in Threads, u \in Threads :
        /\ t # u
        /\ pc[t] \in {"p_idx", "e_idx", "m_idx", "sc_build"}
        /\ pc[u] = "m_upd"
        /\ recLock[loc[u].id] = u
        /\ loc[u].id \in Range(orderedIndex)
        /\ loc[t].id \in DOMAIN elems
        /\ loc[t].id # loc[u].id

\* C12: the id a push takes (push_back, or one element of a batch push_back)
\* differs from every id taken before, by pushes that have returned as by
\* pushes in progress, is greater than all of them (so an erased id never
\* comes back), and the first id is 1.
C12_IdsUniqueIncreasing ==
    [][\A t \in Threads :
          (pc[t] # "p_ins" /\ pc'[t] = "p_ins") =>
              /\ loc'[t].id \notin taken
              /\ \A i \in taken : i < loc'[t].id
              /\ (taken = {}) => loc'[t].id = 1]_vars

\* a push_back has taken its id after an earlier id was returned and erased
C12_Witness ==
    \E t \in Threads :
        /\ pc[t] = "p_ins"
        /\ \E i \in known : i \notin DOMAIN elems /\ i < loc[t].id

\* the smaller of two numbers
Min2(a, b) == IF a < b THEN a ELSE b

\* the k lowest ids of the order s, ascending, and the k highest, descending
Lowest(s, k) == SubSeq(s, 1, Min2(k, Len(s)))
Highest(s, k) == [i \in 1..Min2(k, Len(s)) |-> s[Len(s) + 1 - i]]

\* C13: with the ordered index of n ids, bottom_k(k) returns the min(k, n)
\* lowest ids of the index in ascending order and top_k(k) the min(k, n)
\* highest in descending order; without the ordered index both return the
\* empty list.
C13_TopBottomK ==
    [][\A t \in Threads :
          /\ (pc[t] = "r_iter" /\ pc'[t] = "ret") =>
                loc[t].out = IF loc[t].op = "top_k"
                             THEN Highest(orderedIndex, loc[t].k)
                             ELSE Lowest(orderedIndex, loc[t].k)
          /\ (pc[t] = "idle" /\ pc'[t] = "ret"
                /\ loc'[t].op \in {"top_k", "bottom_k"}) =>
                (~cfg.ordered /\ loc'[t].out = <<>>)]_vars

\* top_k(1) has returned one id of an index of two ids
C13_Witness ==
    \E t \in Threads :
        /\ pc[t] = "ret" /\ loc[t].op = "top_k" /\ loc[t].k = 1
        /\ Len(orderedIndex) = 2
        /\ loc[t].out = <<orderedIndex[2]>>

\* the program points inside an index write
IndexWritePoints == {"p_idx", "e_idx", "m_idx", "sc_build"}

\* C14: a top_k/bottom_k traversal runs under the shared lock and an index
\* write under the exclusive lock, the two never at the same time, and the
\* index changes only in a step of the exclusive holder.
C14_ReadersExcludeWriters ==
    /\ [](\A t \in Threads :
            /\ (pc[t] = "r_iter") <=> (t \in readers)
            /\ (pc[t] \in IndexWritePoints) <=> (orderedMtx = t)
            /\ (pc[t] \in IndexWritePoints) => readers = {})
    /\ [][(orderedIndex' # orderedIndex \/ indexCmp' # indexCmp) =>
            (orderedMtx # 0 /\ readers = {})]_vars

\* two top_k/bottom_k calls are inside a non-empty index at the same time
C14_Witness ==
    /\ Cardinality(readers) > 1
    /\ orderedIndex # <<>>
    /\ \E t \in readers : loc[t].out # <<>>

\* the list out is in the order of comparator c over the snapshots of now,
\* ascending (with id as tie-break)
Ascending(c, out) ==
    \A i \in 1..Len(out), j \in 1..Len(out) :
        i < j => IdComparator(c, elems, out[i], out[j])

\* C15: the list a bottom_k call returns, with no element set in progress,
\* is in the order of the comparator the index was built with or in the
\* order of the comparator that set_compare has stored, never in neither.
C15_OldOrNewOrder ==
    \A t \in Threads :
        (/\ pc[t] = "r_iter" /\ loc[t].op = "bottom_k"
         /\ Len(loc[t].out) = Min2(loc[t].k, Len(orderedIndex))
         /\ \A u \in Threads : loc[u].op # "set")
            => (Ascending(indexCmp, loc[t].out) \/ Ascending(cmp, loc[t].out))

\* the store holds the three pairs of the scenario, pushed in its order, with
\* the second field of the element (2,3) being x, under the default comparator
ScenarioCStore(x) ==
    /\ cmp = "lex" /\ indexCmp = "lex"
    /\ DOMAIN elems = 1..Len(ScenarioC)
    /\ \A i \in DOMAIN elems :
          /\ elems[i].cell1 = ScenarioC[i][1] /\ elems[i].last1 = ScenarioC[i][1]
          /\ elems[i].cell2 = (IF i = ScenarioCSet[1] THEN x ELSE ScenarioC[i][2])
          /\ elems[i].last2 = elems[i].cell2

\* bottom_k(1) is about to return in thread t
BottomOneDone(t) ==
    pc[t] = "r_iter" /\ loc[t].op = "bottom_k" /\ loc[t].k = 1 /\ Len(loc[t].out) = 1

\* C16 as stated: after the pushes (1,5), (2,3), (3,9), bottom_k(1) returns
\* the id of (2,3); after that element's second field is set to 20,
\* bottom_k(1) returns the id of (1,5).
C16_ScenarioC ==
    \A t \in Threads :
        /\ (BottomOneDone(t) /\ ScenarioCStore(ScenarioC[2][2])) => loc[t].out = <<2>>
        /\ (BottomOneDone(t) /\ ScenarioCStore(ScenarioCSet[2])) => loc[t].out = <<1>>

\* C16 amended: bottom_k(1) returns the id of (1,5), the lowest pair in the
\* lexicographic order, both before and after the second field of (2,3) is
\* set to 20.
C16_ScenarioCLowestFirst ==
    \A t \in Threads :
        /\ (BottomOneDone(t) /\ ScenarioCStore(ScenarioC[2][2])) => loc[t].out = <<1>>
        /\ (BottomOneDone(t) /\ ScenarioCStore(ScenarioCSet[2])) => loc[t].out = <<1>>

\* bottom_k(1) is about to return after the three pushes and the set
C16_Witness ==
    \E t \in Threads : BottomOneDone(t) /\ ScenarioCStore(ScenarioCSet[2])

\* what one push_back(e1, e2, k) makes of the state S it starts in
AfterPush(S, p) ==
    LET x == DefaultExtract1(p[1], p[2])
        m == IF cfg.mode = "Add" THEN S.idx1 ELSE InsertIndex1(S.idx1, x)
    IN  [total1 |-> IF cfg.mode = "Add"
                    THEN S.total1 + DefaultDelta1(p[1], p[2], 0, 0)
                    ELSE TopIndex1(m, cfg.mode),
         total2 |-> S.total2 + DefaultDelta2(p[1], p[2], 0, 0),
         idx1 |-> m,
         count |-> S.count + 1,
         elems |-> [i \in DOMAIN S.elems \cup {S.nextId} |->
                      IF i = S.nextId
                      THEN [cell1 |-> p[1], cell2 |-> p[2],
                            last1 |-> p[1], last2 |-> p[2], key |-> p[3]]
                      ELSE S.elems[i]],
         nextId |-> S.nextId + 1]

\* what the push_back calls of the elements of L, one after the other, make
\* of S
RECURSIVE AfterPushes(_, _)
AfterPushes(S, L) ==
    IF L = <<>> THEN S ELSE AfterPushes(AfterPush(S, Head(L)), Tail(L))

\* C17: one caller thread: when a batch push_back of N >= 1 pairs returns, the
\* totals have sent exactly one notification cycle since the call started,
\* and total1, total2, size() and the store are what N push_back calls of
\* the same pairs in the same order make of the state the call started in
\* (a single push_back makes of it what AfterPush says).
C17_BatchIsOneCycleSameState ==
    \A t \in Threads :
        (pc[t] = "ret" /\ loc[t].op \in {"push", "batch"} /\ loc[t].arg # <<>>)
            => /\ Summary = AfterPushes(loc[t].s0, loc[t].arg)
               /\ loc[t].op = "batch" => notes = loc[t].n0 + 1

\* a batch push of MaxBatch pairs has returned in a collection that held an
\* element and had sent notifications before
C17_Witness ==
    \E t \in Threads :
        /\ pc[t] = "ret" /\ loc[t].op = "batch"
        /\ Len(loc[t].arg) = MaxBatch
        /\ loc[t].n0 > 0 /\ loc[t].s0.count > 0
        /\ elemCount = loc[t].s0.count + MaxBatch

\* a call that has finished its work and is about to return
Returns(t) == pc[t] = "ret" /\ pc'[t] = "idle"

\* C18: elem1Var(id) and elem2Var(id) of an id that is not in the store throw
\* and change nothing of the collection; find_by_key(k) and erase_by_key(k)
\* of a key without an entry return an empty result, or do nothing, without
\* throwing and change nothing of the collection; neither do the returns.
C18_NotFoundBehaviour ==
    [][\A t \in Threads :
          /\ (pc[t] = "idle" /\ loc'[t].op = "var")
                => (pc'[t] = "ret" /\ loc'[t].thrown /\ UNCHANGED shared)
          /\ (pc[t] = "idle" /\ loc'[t].op = "find_by_key"
                /\ FindByKey(loc'[t].key) = NoId)
                => (/\ pc'[t] = "ret" /\ ~loc'[t].thrown
                    /\ loc'[t].res = NoId /\ UNCHANGED shared)
          /\ (pc[t] = "idle" /\ loc'[t].op = "erase_by_key"
                /\ FindByKey(loc'[t].key) = NoId)
                => (pc'[t] = "ret" /\ ~loc'[t].thrown /\ UNCHANGED shared)
          /\ (Returns(t) /\ loc[t].op \in {"var", "find_by_key"})
                => UNCHANGED shared
          /\ (Returns(t) /\ loc[t].op = "erase_by_key" /\ loc[t].id = NoId)
                => UNCHANGED shared]_vars

\* an elemNVar call of an absent id has thrown, in a keyed collection that
\* holds an element, its monitor and its contribution to the totals, and
\* that has a key without an entry
C18_Witness ==
    \E t \in Threads :
        /\ pc[t] = "ret" /\ loc[t].op = "var" /\ loc[t].thrown
        /\ cfg.keyed /\ \E k \in Keys : FindByKey(k) = NoId
        /\ Live # {} /\ monitors # {} /\ elemCount > 0 /\ total2 # 0

\* C19: Render never reads its row buffer while a Refresh is clearing,
\* filling or sorting that same buffer, however many Refresh calls run during
\* the Render.
C19_NoReadWhileRefreshWrites ==
    ~(widget.gpc \in {"size", "rows"} /\ RefreshWrites(widget.f))

\* C20: ordering enabled, one caller thread: when an element set whose old
\* and new field tuples are not equivalent under the comparator returns, the
\* ordered index holds every live id exactly once and its traversal is in
\* ascending comparator order of the current snapshots, id as tie-break (so
\* the erase before the reinsert has removed the element's old entry).
C20_IndexOrderedAfterSet ==
    \A t \in Threads :
        (cfg.ordered /\ pc[t] = "ret" /\ loc[t].op = "set" /\ loc[t].reins)
            => /\ Range(orderedIndex) = Live
               /\ Len(orderedIndex) = Cardinality(Live)
               /\ Ascending(indexCmp, orderedIndex)

\* the list out is in the order of comparator c over the snapshots of store E
AscendingIn(c, E, out) ==
    \A i \in 1..Len(out), j \in 1..Len(out) :
        i < j => IdComparator(c, E, out[i], out[j])

\* the steps of apply_pair
ApplyPoints == {"a_t1", "a_w1", "a_t2", "c_lock", "c_w1", "c_w2"}

\* C21: when the monitor of a set finds the old and the new field tuples
\* equivalent under the comparator, it goes on to apply_pair without taking
\* the exclusive index lock and without an erase or insert; the index is left
\* as it was by every later step of the call, and an index that was in
\* comparator order over the old snapshots is in the order of the index's
\* comparator or of the stored comparator over the new snapshots.
C21_EquivalentSetKeepsIndex ==
    [][\A t \in Threads :
          /\ (cfg.ordered /\ pc[t] = "m_upd" /\ pc'[t] # "m_upd" /\ ~loc'[t].reins)
                => /\ pc'[t] = ApplyEntry
                   /\ orderedIndex' = orderedIndex
                   /\ orderedMtx' = orderedMtx
                   /\ AscendingIn(indexCmp, elems, orderedIndex)
                        => \/ AscendingIn(indexCmp', elems', orderedIndex')
                           \/ AscendingIn(cmp', elems', orderedIndex')
          /\ (/\ cfg.ordered /\ loc[t].op = "set" /\ loc[t].found /\ ~loc[t].reins
              /\ pc[t] \in ApplyPoints /\ pc'[t] # pc[t])
                => /\ orderedIndex' = orderedIndex
                   /\ orderedMtx' = orderedMtx
                   /\ pc'[t] \in ApplyPoints \cup {"ret"}]_vars

\* the live elements whose extracted value is v
Holders(v) == {i \in Live : DefaultExtract1(elems[i].cell1, elems[i].cell2) = v}

\* C22: in Min and Max mode, at every quiescent point, the count map holds
\* for every value one count per live element with that extracted value, and
\* total1() is the top of the count map: the total stays at the extreme
\* value while one live element still holds it.
C22_OneCountPerLiveElement ==
    (cfg.mode # "Add" /\ Quiescent) =>
        /\ \A v \in DOMAIN idx1 : idx1[v] = Cardinality(Holders(v))
        /\ total1 = TopIndex1(idx1, cfg.mode)

\* the snapshots of a and b are equivalent under comparator c
Equivalent(c, a, b) ==
    /\ ~Compare(c, elems[a].last1, elems[a].last2, elems[b].last1, elems[b].last2)
    /\ ~Compare(c, elems[b].last1, elems[b].last2, elems[a].last1, elems[a].last2)

\* C23: over the snapshots of any reachable state and for every comparator,
\* the id comparator is a strict total order on the live ids: irreflexive,
\* exactly one of a < b and b < a for distinct ids, transitive; ids whose
\* tuples are equivalent under the comparator are in ascending id order.
C23_IdComparatorTotalOrder ==
    \A c \in Cmps : \A a \in Live, b \in Live :
        /\ ~IdComparator(c, elems, a, a)
        /\ a # b => (IdComparator(c, elems, a, b) <=> ~IdComparator(c, elems, b, a))
        /\ (a # b /\ Equivalent(c, a, b)) => (IdComparator(c, elems, a, b) <=> a < b)
        /\ \A d \in Live :
              (IdComparator(c, elems, a, b) /\ IdComparator(c, elems, b, d))
                  => IdComparator(c, elems, a, d)

\* three live ids, two of them with equivalent tuples under the comparator
\* of the index, a third one that is not equivalent to them
C23_Witness ==
    \E a \in Live, b \in Live, d \in Live :
        /\ a < b /\ d \notin {a, b}
        /\ Equivalent(indexCmp, a, b)
        /\ ~Equivalent(indexCmp, a, d)
        /\ IdComparator(indexCmp, elems, a, b)

\* the steps of the change monitor after acc.release()
AfterRelease == {"m_lock", "m_idx"} \cup ApplyPoints

\* C24 as stated: once the monitor has released the lock of the record it
\* mutates, no later step of the call takes that record's lock again, the
\* comparator calls of the erase and reinsert included.
C24_NeverTakenAgain ==
    [][\A t \in Threads :
          (loc[t].op = "set" /\ pc[t] \in AfterRelease /\ pc'[t] # pc[t])
              => /\ recLock'[loc[t].id] # t
                 /\ pc[t] = "m_idx"
                      => loc[t].id \notin ComparatorLocks(orderedIndex, loc[t].id)]_vars

\* C24, amended: the monitor's step under the accessor ends with the
\* record's lock free, and no later step of the call leaves the thread
\* holding it; the comparator calls of the erase and reinsert take the
\* record's lock again (and give it back) whenever the index holds another
\* id to compare it with, and they find it free of this thread's accessor.
C24_FreeThenTakenByComparator ==
    [][\A t \in Threads :
          /\ (pc[t] = "m_upd" /\ pc'[t] # "m_upd") => recLock'[loc[t].id] # t
          /\ (loc[t].op = "set" /\ pc[t] \in AfterRelease /\ pc'[t] # pc[t])
                => /\ recLock'[loc[t].id] # t
                   /\ pc[t] = "m_idx"
                        => /\ recLock[loc[t].id] # t
                           /\ (Range(orderedIndex) \ {loc[t].id} # {}
                               /\ loc[t].id \in DOMAIN elems)
                                 => /\ loc[t].id \in ComparatorLocks(orderedIndex, loc[t].id)
                                    /\ recLock[loc[t].id] = 0]_vars

\* a set has gone through the erase and reinsert with another id in the index
C24_Witness ==
    \E t \in Threads :
        /\ cfg.ordered /\ loc[t].op = "set" /\ loc[t].reins
        /\ pc[t] = ApplyEntry
        /\ loc[t].id \in DOMAIN elems
        /\ Range(orderedIndex) \ {loc[t].id} # {}

\* thread t is in the part of apply_pair that reads and writes the count map:
\* not combined, the update of the map and the read of its top; combined,
\* the part under combined_mtx_
InCountMap(t) ==
    /\ cfg.mode # "Add"
    /\ IF cfg.combined THEN pc[t] \in {"c_w1", "c_w2"} ELSE pc[t] = "a_t1"

\* C25: in Min and Max mode no two threads are in the part of apply_pair
\* that reads and writes the count map at the same time, combined or not.
C25_CountMapOneAtATime ==
    \A t \in Threads, u \in Threads : (t # u /\ InCountMap(t)) => ~InCountMap(u)

\* id is in the list s once, and before and after the ids that comparator c
\* puts it before and after, over the snapshots of now
InPlace(c, s, id) ==
    /\ Cardinality({p \in 1..Len(s) : s[p] = id}) = 1
    /\ \A p \in 1..Len(s), q \in 1..Len(s) :
          (p < q /\ id \in {s[p], s[q]}) => IdComparator(c, elems, s[p], s[q])

\* C26: when a set on a live element's cell returns and no other thread is
\* in a call, the record's snapshot is the pair of the cells' values, the id
\* is in the ordered index at the place the comparator gives it, total1 is
\* the sum (the extreme) and total2 the sum over the live elements.
C26_SetAppliedAtReturn ==
    \A t \in Threads :
        (/\ pc[t] = "ret" /\ loc[t].op = "set" /\ loc[t].found
         /\ loc[t].id \in Live
         /\ \A u \in Threads \ {t} : pc[u] = "idle")
            => /\ elems[loc[t].id].last1 = elems[loc[t].id].cell1
               /\ elems[loc[t].id].last2 = elems[loc[t].id].cell2
               /\ cfg.ordered => InPlace(indexCmp, orderedIndex, loc[t].id)
               /\ IF cfg.mode = "Add" THEN total1 = LiveSum1
                  ELSE /\ total1 \in LiveExtracts
                       /\ \A x \in LiveExtracts :
                             IF cfg.mode = "Min" THEN total1 <= x ELSE total1 >= x
               /\ total2 = LiveSum2

\* C27: one caller thread: when push_back(e1, e2, key) returns id, the store
\* holds id with snapshot (e1, e2), find_by_key(key) is id in a keyed
\* collection, the ordered index holds id when there is one, a monitor is
\* open for id, size() is one more than at the call, and the totals carry
\* delta(e1, e2, 0, 0) on top of what they were at the call.
C27_PushBackPostState ==
    \A t \in Threads :
        (pc[t] = "ret" /\ loc[t].op = "push" /\ loc[t].arg # <<>>)
            => /\ loc[t].id \in Live
               /\ elems[loc[t].id].last1 = loc[t].e1
               /\ elems[loc[t].id].last2 = loc[t].e2
               /\ (cfg.keyed /\ loc[t].key # 0) => FindByKey(loc[t].key) = loc[t].id
               /\ cfg.ordered => loc[t].id \in Range(orderedIndex)
               /\ loc[t].id \in monitors
               /\ elemCount = loc[t].s0.count + 1
               /\ cfg.mode = "Add" =>
                     total1 = loc[t].s0.total1
                              + DefaultDelta1(loc[t].e1, loc[t].e2, 0, 0)
               /\ total2 = loc[t].s0.total2
                           + DefaultDelta2(loc[t].e1, loc[t].e2, 0, 0)

\* C28: one caller thread: when set_compare(c) or rebuild_ordered_index()
\* returns, the ordered index holds the ids of the store, each once, in the
\* ascending order of the stored comparator over the snapshots of now (id as
\* tie-break), and compares with that comparator: whatever it held before.
C28_RebuiltIndexIsSortedStore ==
    \A t \in Threads :
        (cfg.ordered /\ pc[t] = "ret" /\ loc[t].op \in {"set_compare", "rebuild"})
            => /\ Range(orderedIndex) = Live
               /\ Len(orderedIndex) = Cardinality(Live)
               /\ Ascending(cmp, orderedIndex)
               /\ indexCmp = cmp

\* a rebuild has returned that found an index which had lost a live id or
\* was not in the comparator's order
C28_Witness ==
    \E t \in Threads :
        /\ cfg.ordered /\ pc[t] = "ret" /\ loc[t].op \in {"set_compare", "rebuild"}
        /\ Cardinality(Live) > 1
        /\ loc[t].arg # orderedIndex
        /\ Range(loc[t].arg) # Live \/ ~Ascending(cmp, loc[t].arg)

\* the change monitor of a set is running on thread u
CallbackRuns(u) ==
    /\ loc[u].op = "set"
    /\ pc[u] \in {"m_find", "m_upd", "m_lock", "m_idx"} \cup ApplyPoints

C30_IndexIdsAlwaysStoreIds ==
    cfg.ordered => Range(orderedIndex) = Live

\* C31: a traversal through ordered_begin()/ordered_end() never reads a node
\* of the index while another thread holds the exclusive lock to insert
\* into, erase from or rebuild the index.
C31_TraversalNeverOverlapsWrite ==
    \A t \in Threads, u \in Threads :
        ~(pc[t] = "it_read" /\ pc[u] \in IndexWritePoints)

\* C32: when two threads have called erase(id) on the same id, which was
\* live, and both calls are at their return, the element has been removed
\* once: size() is the number of records of the store and the totals are
\* those of the live elements.
C32_ConcurrentEraseOnce ==
    \A t \in Threads, u \in Threads :
        (/\ t # u
         /\ pc[t] = "ret" /\ loc[t].op = "erase"
         /\ pc[u] = "ret" /\ loc[u].op = "erase"
         /\ loc[t].id = loc[u].id /\ loc[t].id \in taken)
            => /\ elemCount = Cardinality(Live)
               /\ total2 = LiveSum2
               /\ IF cfg.mode = "Add" THEN total1 = LiveSum1
                  ELSE total1 = TopIndex1(idx1, cfg.mode)
                       /\ \A v \in DOMAIN idx1 : idx1[v] = Cardinality(Holders(v))


\* C33: erase_by_key(k) for a key that is there terminates and does what
\* erase(id) does for the id the key maps to, with or without the coarse
\* lock: the call never waits for ever, and when it is at its return no
\* exception has left it and the element it found is out of the store
C33_EraseByKeyAsErase ==
    \A t \in Threads :
        /\ pc[t] # "ek_stuck"
        /\ (pc[t] = "ret" /\ loc[t].op = "erase_by_key" /\ loc[t].id # NoId)
              => ~loc[t].thrown /\ loc[t].id \notin DOMAIN elems


\* C34: with the caller's apply function, Add mode and each total published
\* on its own, the read, the apply and the write of a total are one step to
\* every other delta application (push_back, erase, a change monitor), with
\* or without RequireCoarseLock: a thread that has read a total and has not
\* yet written it back finds the total as it read it, so no delta applied
\* by another thread is overwritten
C34_ApplyTotalAtomic ==
    \A t \in Threads :
        /\ pc[t] = "a_c1w" => total1 = loc[t].read1
        /\ pc[t] = "a_c2w" => total2 = loc[t].read2


\* C35: at every quiescent point the snapshot (lastElem1, lastElem2) of every
\* live element is the pair of the current values of its two cells, however
\* the sets that different threads made on the two cells of the element
\* were interleaved
C35_SnapshotIsCells ==
    Quiescent =>
        \A id \in Live : /\ elems[id].last1 = elems[id].cell1
                          /\ elems[id].last2 = elems[id].cell2


\* C36: in Min or Max mode, whenever no call is in progress and the
\* collection has no live element (at the start, or after the last element
\* was erased), total 1 is the default-constructed value, zero
C36_EmptyTotalIsZero ==
    (Quiescent /\ cfg.mode # "Add" /\ Live = {}) => total1 = 0


\* thread t enters set_compare and assigns cmp_ in this step
AssignsCmp(t) ==
    pc[t] = "idle" /\ pc'[t] # "idle" /\ loc'[t].op = "set_compare"

\* thread u is in the part of the change monitor that holds the record's
\* accessor and reads cmp_ for need_reinsert
ReadsCmp(u) == cfg.ordered /\ pc[u] = "m_upd"

\* C37: set_compare never assigns cmp_ while another thread is in the part of
\* a change monitor that reads cmp_ to decide on the reinsert, with the
\* coarse lock disabled as well
C37_CmpWriteExcludesReaders ==
    [][\A t \in Threads : AssignsCmp(t) => \A u \in Threads \ {t} : ~ReadsCmp(u)]_vars


\* no connect thread of the NatsClient is running and no call is in progress
NatsQuiescent == \A i \in Connects : nats.thread[i] \in {"none", "done"}

\* C38: at every quiescent point of the native NatsClient, IsConnected() is
\* true only if m_nativeData holds a connection object, however the connect
\* thread that Connect started and a Disconnect call were interleaved
C38_ConnectedHasNativeData ==
    NatsQuiescent => (IsConnected => nats.nativeData # 0)

====
